---- MODULE Spec2Model ----
(***************************************************************************)
(* A model of the crab-gambit chess engine: the bitboard Position with its *)
(* reversible move application (position.rs), the pseudo-legal and legal   *)
(* move generators (moves.rs), and the search with its worker/controller   *)
(* coordination (main.rs).                                                 *)
(*                                                                         *)
(* Representation.  A Bitboard (u64) is the set of its set bit indices,    *)
(* a subset of 0..63; bit index = file*8 + rank as in Bitboard::get/set.   *)
(* An Option<T> is a sequence: << >> for None and <<x>> for Some(x).       *)
(* Piece types are the strings "Pawn" .. "King".                           *)
(***************************************************************************)
EXTENDS Integers, Sequences, FiniteSets, TLC

VARIABLES
    pos,          \* the Position being mutated in place
    undo_stack,   \* records held by the caller, innermost last
    last,         \* the last call made on pos: its name, argument, prior Position, result
    prior,        \* the call made before it
    calls,        \* the number of calls made on pos so far
    worker,       \* per request, the search thread: where it stands, its depth, its Position
    frames,       \* per request, the minimax calls in progress, innermost last
    ret,          \* per request, what the minimax call that just returned has returned
    ctx,          \* the SearchContext: pooled move buffers and node count
    mutex,        \* the Mutex around the SearchContext: its holder, whether it is poisoned
    is_done,      \* per request, the cancel flag shared by worker and controller
    channel,      \* per request, the moves sent and not yet received
    controller,   \* iterative_deepening on the command thread, and the request it serves
    output        \* the lines printed so far

\* The state of the command thread's Position.
position_vars == <<pos, undo_stack, last, prior, calls>>

\* The state of the search requests.
search_vars == <<worker, frames, ret, ctx, mutex, is_done, channel, controller, output>>

vars == <<position_vars, search_vars>>

None == << >>

Some(x) == <<x>>

Abs(x) == IF x < 0 THEN -x ELSE x

\* TRUE.  TLC evaluates an operator's argument where the operator first uses
\* it; a loop tests Evaluated(v) on entry so that the value of one iteration
\* is computed before the next iteration starts, as in the program.
Evaluated(v) == v = v

----------------------------------------------------------------------------
(* square.rs *)

Square(r, f) == [rank |-> r, file |-> f]

is_valid(sq) == sq.file >= 0 /\ sq.rank >= 0 /\ sq.rank < 8 /\ sq.file < 8

add(sq, ranks, files) == [rank |-> sq.rank + ranks, file |-> sq.file + files]

----------------------------------------------------------------------------
(* bitboard.rs *)

BitIndex(sq) == sq.file * 8 + sq.rank

empty_bitboard == {}

\* Bitboard::rank: FIRST_RANK (bits 0..7) shifted right by 8*r.
bitboard_rank(r) ==
    IF r >= 0 /\ r < 8 THEN { i - 8 * r : i \in { j \in 0..7 : j >= 8 * r } }
    ELSE empty_bitboard

\* Bitboard::file: FIRST_FILE (bits 0, 8, .., 56) shifted right by f.
bitboard_file(f) ==
    IF f >= 0 /\ f < 8 THEN { 8 * i - f : i \in { j \in 0..7 : 8 * j >= f } }
    ELSE empty_bitboard

get(bb, sq) == is_valid(sq) /\ BitIndex(sq) \in bb

set(bb, sq, value) ==
    IF is_valid(sq)
    THEN IF value THEN bb \cup {BitIndex(sq)} ELSE bb \ {BitIndex(sq)}
    ELSE bb

count(bb) == Cardinality(bb)

intersect(a, b) == a \cap b

union(a, b) == a \cup b

\* BitboardIterator::next yields the lowest set bit first, as
\* Square{rank: index % 8, file: index / 8}: the squares of bb in that order.
into_iter(bb) ==
    [k \in 1..Cardinality(bb) |->
        LET index == CHOOSE i \in bb : Cardinality({j \in bb : j < i}) = k - 1
        IN Square(index % 8, index \div 8)]

----------------------------------------------------------------------------
(* piece.rs, moves.rs: the value types *)

Piece(is_white, p_type) == [is_white |-> is_white, p_type |-> p_type]

Move(src, dest, promotion) == [src |-> src, dest |-> dest, promotion |-> promotion]

PastMove(mv, captured, target) ==
    [mv |-> mv, captured_peice |-> captured, en_passant_target |-> target]

----------------------------------------------------------------------------
(* position.rs *)

CastleState(short, long) == [can_short_castle |-> short, can_long_castle |-> long]

empty ==
    [ white_to_play |-> TRUE,
      en_passant_target |-> None,
      white_castle_state |-> CastleState(TRUE, TRUE),
      black_castle_state |-> CastleState(TRUE, TRUE),
      white_pieces |-> {}, black_pieces |-> {},
      pawns |-> {}, knights |-> {}, bishops |-> {},
      rooks |-> {}, queens |-> {}, kings |-> {} ]

remove_piece(p, sq) ==
    [p EXCEPT !.white_pieces = set(@, sq, FALSE),
              !.black_pieces = set(@, sq, FALSE),
              !.pawns = set(@, sq, FALSE),
              !.knights = set(@, sq, FALSE),
              !.bishops = set(@, sq, FALSE),
              !.rooks = set(@, sq, FALSE),
              !.queens = set(@, sq, FALSE),
              !.kings = set(@, sq, FALSE)]

\* by_type_mut(p_type).set(sq, true)
set_by_type(p, p_type, sq) ==
    CASE p_type = "Pawn"   -> [p EXCEPT !.pawns = set(@, sq, TRUE)]
      [] p_type = "Knight" -> [p EXCEPT !.knights = set(@, sq, TRUE)]
      [] p_type = "Bishop" -> [p EXCEPT !.bishops = set(@, sq, TRUE)]
      [] p_type = "Rook"   -> [p EXCEPT !.rooks = set(@, sq, TRUE)]
      [] p_type = "Queen"  -> [p EXCEPT !.queens = set(@, sq, TRUE)]
      [] p_type = "King"   -> [p EXCEPT !.kings = set(@, sq, TRUE)]

by_color(p, white) == IF white THEN p.white_pieces ELSE p.black_pieces

\* by_color_mut(white).set(sq, true)
set_by_color(p, white, sq) ==
    IF white THEN [p EXCEPT !.white_pieces = set(@, sq, TRUE)]
             ELSE [p EXCEPT !.black_pieces = set(@, sq, TRUE)]

all_pieces(p) == union(p.white_pieces, p.black_pieces)

get_piece_type(p, sq) ==
    IF ~get(all_pieces(p), sq) THEN None
    ELSE IF get(p.pawns, sq) THEN Some("Pawn")
    ELSE IF get(p.knights, sq) THEN Some("Knight")
    ELSE IF get(p.bishops, sq) THEN Some("Bishop")
    ELSE IF get(p.rooks, sq) THEN Some("Rook")
    ELSE IF get(p.queens, sq) THEN Some("Queen")
    ELSE IF get(p.kings, sq) THEN Some("King")
    ELSE None

get_peice(p, sq) ==
    LET t == get_piece_type(p, sq)
    IN IF t # None THEN Some(Piece(get(p.white_pieces, sq), t[1])) ELSE None

\* set_or_remove_piece without the remove_piece that clears the square first.
set_or_remove_piece_unclear(p, sq, piece) ==
    IF piece # None
    THEN set_by_color(set_by_type(p, piece[1].p_type, sq), piece[1].is_white, sq)
    ELSE remove_piece(p, sq)

set_or_remove_piece(p, sq, piece) ==
    LET r == remove_piece(p, sq)
    IN IF piece # None
       THEN set_by_color(set_by_type(r, piece[1].p_type, sq), piece[1].is_white, sq)
       ELSE r

set_piece(p, sq, piece) == set_or_remove_piece(p, sq, Some(piece))

BACK_RANK == <<"Rook", "Knight", "Bishop", "Queen", "King", "Bishop", "Knight", "Rook">>

\* The body of the `for file in 0..8` loop of Position::start.
start_file(p, file) ==
    set_piece(
      set_piece(
        set_piece(
          set_piece(p, Square(0, file), Piece(TRUE, BACK_RANK[file + 1])),
          Square(1, file), Piece(TRUE, "Pawn")),
        Square(6, file), Piece(FALSE, "Pawn")),
      Square(7, file), Piece(FALSE, BACK_RANK[file + 1]))

RECURSIVE start_files(_, _)
start_files(p, file) ==
    IF file >= 8 \/ ~Evaluated(p) THEN p
    ELSE start_files(start_file(p, file), file + 1)

start == start_files(empty, 0)

do_null_move(p) == [p EXCEPT !.white_to_play = ~@]

undo_null_move(p) == [p EXCEPT !.white_to_play = ~@]

(* do_move and undo_move are written as the stages of their bodies, each   *)
(* stage an operator applied to the Position the stage before it left.     *)

\* do_move, "Promotion": the piece that is put on the destination square.
promoted(peice, mv) ==
    IF mv.promotion # None THEN [peice EXCEPT !.p_type = mv.promotion[1]] ELSE peice

\* The test of the "En passant" block in do_move and in undo_move.
is_en_passant(peice, mv, target) ==
    /\ peice.p_type = "Pawn"
    /\ target # None
    /\ mv.src.rank = target[1].rank
    /\ mv.dest.file = target[1].file

\* do_move, "En passant": the captured piece recorded.
en_passant_captured(p, peice, mv, captured) ==
    IF is_en_passant(peice, mv, p.en_passant_target)
    THEN get_peice(p, p.en_passant_target[1])
    ELSE captured

\* do_move, "En passant": the Position afterwards.
en_passant_removed(p, peice, mv) ==
    IF is_en_passant(peice, mv, p.en_passant_target)
    THEN remove_piece(p, p.en_passant_target[1])
    ELSE p

\* do_move, "En passant setup".
en_passant_setup(p, peice, mv) ==
    IF peice.p_type = "Pawn" /\ Abs(mv.src.rank - mv.dest.rank) = 2
    THEN [p EXCEPT !.en_passant_target = Some(mv.dest)]
    ELSE [p EXCEPT !.en_passant_target = None]

\* do_move, "Castling": the castle rights of the moved piece's colour.
castle_rights_after(cs, peice, mv) ==
    IF peice.p_type = "King" THEN CastleState(FALSE, FALSE)
    ELSE IF peice.p_type = "Rook"
         THEN IF mv.src.file = 0 THEN [cs EXCEPT !.can_long_castle = FALSE]
                                 ELSE [cs EXCEPT !.can_short_castle = FALSE]
         ELSE cs

\* do_move, "Castling": the rights written back to the moved piece's colour.
castle_state_after(p, peice, mv) ==
    IF peice.is_white
    THEN [p EXCEPT !.white_castle_state = castle_rights_after(@, peice, mv)]
    ELSE [p EXCEPT !.black_castle_state = castle_rights_after(@, peice, mv)]

\* do_move: a king move spanning two files relocates the rook.
castle_rook_after(p, peice, mv) ==
    IF peice.p_type = "King" /\ Abs(mv.src.file - mv.dest.file) = 2
    THEN IF mv.dest.file > mv.src.file
         THEN set_piece(remove_piece(p, Square(mv.src.rank, 7)),
                        Square(mv.src.rank, 5), Piece(peice.is_white, "Rook"))
         ELSE set_piece(remove_piece(p, Square(mv.src.rank, 0)),
                        Square(mv.src.rank, 3), Piece(peice.is_white, "Rook"))
    ELSE p

\* do_move, "Advance to next turn".
advance_turn(p) == [p EXCEPT !.en_passant_target = None, !.white_to_play = ~@]

\* do_move from the PastMove on: p is the Position and captured the piece
\* after the "En passant" block.
do_move_recorded(p, peice, mv, captured) ==
    [ok |-> TRUE,
     pos |-> advance_turn(
                 castle_rook_after(
                     castle_state_after(en_passant_setup(p, peice, mv), peice, mv),
                     peice, mv)),
     past |-> Some(PastMove(mv, captured, p.en_passant_target))]

\* do_move from the "En passant" block on: p has the piece on mv.dest.
do_move_placed(p, peice, mv, captured) ==
    do_move_recorded(en_passant_removed(p, peice, mv), peice, mv,
                     en_passant_captured(p, peice, mv, captured))

\* do_move of the piece found on mv.src.
do_move_found(p, peice, mv) ==
    do_move_placed(set_piece(remove_piece(p, mv.src), mv.dest, peice), peice, mv,
                   get_peice(p, mv.dest))

\* A do_move that has removed the source and destination pieces before it
\* finds the source square empty.
do_move_clearing(p, mv) ==
    IF get_peice(p, mv.src) = None
    THEN [ok |-> FALSE, pos |-> remove_piece(p, mv.dest), past |-> None]
    ELSE do_move_found(p, promoted(get_peice(p, mv.src)[1], mv), mv)

\* Result<PastMove, String>: ok, the Position afterwards, and the record.
do_move(p, mv) ==
    IF get_peice(p, mv.src) = None THEN [ok |-> FALSE, pos |-> p, past |-> None]
    ELSE do_move_found(p, promoted(get_peice(p, mv.src)[1], mv), mv)

\* undo_move: the piece that is put back on the source square.
demoted(peice, mv) ==
    IF mv.promotion # None THEN [peice EXCEPT !.p_type = "Pawn"] ELSE peice

\* undo_move, the en-passant block: the Position afterwards.
undo_en_passant(p, peice, past_move) ==
    IF is_en_passant(peice, past_move.mv, past_move.en_passant_target)
    THEN remove_piece(p, past_move.mv.dest)
    ELSE p

\* undo_move: the square on which the captured piece is put back.
captured_square(peice, past_move) ==
    IF is_en_passant(peice, past_move.mv, past_move.en_passant_target)
    THEN past_move.en_passant_target[1]
    ELSE past_move.mv.dest

\* undo_move, "Castling": the rook goes back to its corner.
undo_castle_rook(p, peice, mv) ==
    IF peice.p_type = "King" /\ Abs(mv.src.file - mv.dest.file) = 2
    THEN IF mv.dest.file > mv.src.file
         THEN set_piece(remove_piece(p, Square(mv.src.rank, 5)),
                        Square(mv.src.rank, 7), Piece(peice.is_white, "Rook"))
         ELSE set_piece(remove_piece(p, Square(mv.src.rank, 3)),
                        Square(mv.src.rank, 0), Piece(peice.is_white, "Rook"))
    ELSE p

\* undo_move: the side to move flips back.
advance_side(p) == [p EXCEPT !.white_to_play = ~@]

\* Both castle rights of a king's colour set again.
regranted(p, peice) ==
    IF peice.p_type # "King" THEN p
    ELSE IF peice.is_white
    THEN [p EXCEPT !.white_castle_state = CastleState(TRUE, TRUE)]
    ELSE [p EXCEPT !.black_castle_state = CastleState(TRUE, TRUE)]

\* undo_move_found that gives a king taken back its castle rights again.
undo_move_regranting(p, peice, past_move) ==
    [ok |-> TRUE,
     pos |-> regranted(
                 advance_side(
                     set_or_remove_piece(
                         undo_castle_rook(
                             undo_en_passant(set_piece(p, past_move.mv.src, peice),
                                             peice, past_move),
                             peice, past_move.mv),
                         captured_square(peice, past_move),
                         past_move.captured_peice)),
                 peice)]

\* undo_move of the piece found on the destination square.
undo_move_found(p, peice, past_move) ==
    [ok |-> TRUE,
     pos |-> advance_side(
                 set_or_remove_piece(
                     undo_castle_rook(
                         undo_en_passant(set_piece(p, past_move.mv.src, peice),
                                         peice, past_move),
                         peice, past_move.mv),
                     captured_square(peice, past_move),
                     past_move.captured_peice))]

\* Result<(), String>: ok and the Position afterwards.
undo_move(p, past_move) ==
    IF get_peice(p, past_move.mv.dest) = None THEN [ok |-> FALSE, pos |-> p]
    ELSE undo_move_found(p, demoted(get_peice(p, past_move.mv.dest)[1], past_move.mv),
                         past_move)

----------------------------------------------------------------------------
(* moves.rs: pseudo-legal move generation.  Every generator appends to the  *)
(* caller's buffer `moves`; its value here is the buffer afterwards.  A     *)
(* generator only ever pushes, and what it pushes does not depend on the    *)
(* buffer, so a run of calls is the buffer followed by what each call       *)
(* pushes on an empty one, in call order.                                   *)

\* The concatenation of the sequences ss[lo], .., ss[hi].
RECURSIVE Flatten(_, _, _)
Flatten(ss, lo, hi) ==
    IF lo > hi THEN << >>
    ELSE IF lo = hi THEN ss[lo]
    ELSE Flatten(ss, lo, (lo + hi) \div 2) \o Flatten(ss, (lo + hi) \div 2 + 1, hi)

\* generate_move: the buffer afterwards and the returned bool.
\* A generate_move that pushes the move whatever stands on dest.
generate_move_blind(moves, p, src, dest, capture) ==
    IF ~is_valid(dest) THEN [moves |-> moves, ret |-> FALSE]
    ELSE [moves |-> Append(moves, Move(src, dest, None)),
          ret |-> ~get(all_pieces(p), dest)]

generate_move(moves, p, src, dest, capture) ==
    IF ~is_valid(dest) THEN [moves |-> moves, ret |-> FALSE]
    ELSE IF capture
    THEN LET is_white == get(p.white_pieces, src)
         IN IF get(by_color(p, ~is_white), dest)
            THEN [moves |-> Append(moves, Move(src, dest, None)), ret |-> FALSE]
            ELSE IF get(by_color(p, is_white), dest)
            THEN [moves |-> moves, ret |-> FALSE]
            ELSE [moves |-> moves, ret |-> TRUE]
    ELSE IF get(all_pieces(p), dest)
         THEN [moves |-> moves, ret |-> FALSE]
         ELSE [moves |-> Append(moves, Move(src, dest, None)), ret |-> TRUE]

\* The moves of the first steps calls of call, appended to the buffer.
direction_take(moves, call, steps) ==
    moves \o Flatten([k \in 1..steps |-> call[k].moves], 1, steps)

\* The loop runs up to and including the first call that returns false.
direction_run(moves, call) ==
    direction_take(moves, call,
                   CHOOSE k \in 1..8 : ~call[k].ret /\ \A j \in 1..(k - 1) : call[j].ret)

\* A piece that goes one step in its direction and no further.
generate_direction_step(moves, p, src, dr, df, capture) ==
    generate_move(moves, p, src, Square(src.rank + dr, src.file + df), capture).moves

\* The loop of generate_direction_moves: generate_move on the squares 1, 2, ..
\* steps from src.  Eight steps in any direction leave the board, where
\* generate_move returns false.
generate_direction_moves(moves, p, src, dr, df, capture) ==
    direction_run(moves,
                  [k \in 1..8 |->
                      generate_move(<< >>, p, src,
                                    Square(src.rank + k * dr, src.file + k * df),
                                    capture)])

\* A run of generate_move calls from src, one per <<ranks, files>> offset, in order.
generate_offsets(moves, p, src, offsets, capture) ==
    moves \o Flatten([k \in 1..Len(offsets) |->
                        generate_move(<< >>, p, src,
                                      add(src, offsets[k][1], offsets[k][2]), capture).moves],
                     1, Len(offsets))

\* A run of generate_direction_moves calls from src, one per <<dr, df>>, in order.
generate_directions(moves, p, src, dirs, capture) ==
    moves \o Flatten([k \in 1..Len(dirs) |->
                        generate_direction_moves(<< >>, p, src,
                                                 dirs[k][1], dirs[k][2], capture)],
                     1, Len(dirs))

\* generate_pawn_moves, capture: the en-passant push after the two captures.
pawn_en_passant(moves, p, src, direction) ==
    IF /\ p.en_passant_target # None
       /\ p.en_passant_target[1].rank = src.rank
       /\ Abs(p.en_passant_target[1].file - src.file) = 1
    THEN Append(moves, Move(src, add(p.en_passant_target[1], direction, 0), None))
    ELSE moves

\* A pawn that never takes the double step.
pawn_single(g, p, src, dest, direction) == g.moves

\* generate_pawn_moves, no capture, off the back rank: g is what the single
\* step's generate_move returned.
pawn_double(g, p, src, dest, direction) ==
    IF g.ret /\ (src.rank = 1 \/ src.rank = 6)
    THEN generate_move(g.moves, p, src, add(dest, direction, 0), FALSE).moves
    ELSE g.moves

\* generate_pawn_moves, no capture: dest is the square one step ahead.
pawn_advance(moves, p, src, dest, direction) ==
    IF dest.rank = 7 \/ dest.rank = 0
    THEN IF ~get(all_pieces(p), dest)
         THEN moves \o << Move(src, dest, Some("Queen")),
                          Move(src, dest, Some("Rook")),
                          Move(src, dest, Some("Bishop")),
                          Move(src, dest, Some("Knight")) >>
         ELSE moves
    ELSE pawn_double(generate_move(moves, p, src, dest, FALSE), p, src, dest, direction)

\* generate_pawn_moves once direction is known.
pawn_moves(moves, p, src, capture, direction) ==
    IF capture
    THEN pawn_en_passant(
             generate_offsets(moves, p, src,
                              <<<<direction, 1>>, <<direction, -1>>>>, TRUE),
             p, src, direction)
    ELSE pawn_advance(moves, p, src, add(src, direction, 0), direction)

generate_pawn_moves(moves, p, src, capture) ==
    pawn_moves(moves, p, src, capture, IF get(p.white_pieces, src) THEN 1 ELSE -1)

\* <<ranks, files>> in the order of the calls
KNIGHT_OFFSETS ==
    << <<2, 1>>, <<2, -1>>, <<-2, 1>>, <<-2, -1>>,
       <<1, 2>>, <<-1, 2>>, <<1, -2>>, <<-1, -2>> >>

generate_knight_moves(moves, p, src, capture) ==
    generate_offsets(moves, p, src, KNIGHT_OFFSETS, capture)

\* <<dr, df>> in the order of the calls
ROOK_DIRECTIONS == << <<0, 1>>, <<0, -1>>, <<1, 0>>, <<-1, 0>> >>

BISHOP_DIRECTIONS == << <<1, 1>>, <<-1, -1>>, <<-1, 1>>, <<1, -1>> >>

generate_rook_moves(moves, p, src, capture) ==
    generate_directions(moves, p, src, ROOK_DIRECTIONS, capture)

generate_bishop_moves(moves, p, src, capture) ==
    generate_directions(moves, p, src, BISHOP_DIRECTIONS, capture)

generate_queen_moves(moves, p, src, capture) ==
    generate_bishop_moves(generate_rook_moves(moves, p, src, capture), p, src, capture)

\* generate_castle once the mover's castle state and the occupancy are known.
castle(moves, src, dest, castle_state, pieces) ==
    IF dest.file > src.file
    THEN IF \/ ~castle_state.can_short_castle
            \/ get(pieces, add(src, 0, 1))
            \/ get(pieces, add(src, 0, 2))
         THEN moves
         ELSE Append(moves, Move(src, dest, None))
    ELSE IF \/ ~castle_state.can_long_castle
            \/ get(pieces, add(src, 0, -1))
            \/ get(pieces, add(src, 0, -2))
            \/ get(pieces, add(src, 0, -3))
         THEN moves
         ELSE Append(moves, Move(src, dest, None))

\* generate_castle that looks at the castle rights only, not at the squares
\* between king and rook.
generate_castle_unblocked(moves, p, src, dest) ==
    castle(moves, src, dest,
           IF get(p.white_pieces, src) THEN p.white_castle_state
                                       ELSE p.black_castle_state,
           empty_bitboard)

generate_castle(moves, p, src, dest) ==
    castle(moves, src, dest,
           IF get(p.white_pieces, src) THEN p.white_castle_state
                                       ELSE p.black_castle_state,
           all_pieces(p))

\* <<ranks, files>> in the order of the calls
KING_OFFSETS ==
    << <<0, 1>>, <<0, -1>>, <<1, 0>>, <<-1, 0>>,
       <<1, 1>>, <<-1, -1>>, <<1, -1>>, <<-1, 1>> >>

\* generate_king_moves after the eight single steps.
king_castles(moves, p, src, capture) ==
    IF ~capture /\ src.rank = 0 /\ src.file = 4
    THEN generate_castle(generate_castle(moves, p, src, add(src, 0, 2)),
                         p, src, add(src, 0, -2))
    ELSE moves

generate_king_moves(moves, p, src, capture) ==
    king_castles(generate_offsets(moves, p, src, KING_OFFSETS, capture), p, src, capture)

generate_piece_moves(moves, p, src, p_type, capture) ==
    CASE p_type = "Queen"  -> generate_queen_moves(moves, p, src, capture)
      [] p_type = "Knight" -> generate_knight_moves(moves, p, src, capture)
      [] p_type = "Rook"   -> generate_rook_moves(moves, p, src, capture)
      [] p_type = "Bishop" -> generate_bishop_moves(moves, p, src, capture)
      [] p_type = "Pawn"   -> generate_pawn_moves(moves, p, src, capture)
      [] p_type = "King"   -> generate_king_moves(moves, p, src, capture)

\* The calls of one `for square in ...` loop of generate_moves, on squares.
for_each(moves, p, squares, p_type, capture) ==
    moves \o Flatten([k \in 1..Len(squares) |->
                        generate_piece_moves(<< >>, p, squares[k], p_type, capture)],
                     1, Len(squares))

\* One `for square in <board>.intersect(to_play)` loop of generate_moves.
for_squares(moves, p, board, p_type, capture) ==
    for_each(moves, p, into_iter(board), p_type, capture)

\* generate_moves after the king count, to_play being by_color(white_to_play).
generate_groups(moves, p, to_play, capture) ==
    moves
    \o for_squares(<< >>, p, intersect(p.queens, to_play), "Queen", capture)
    \o for_squares(<< >>, p, intersect(p.knights, to_play), "Knight", capture)
    \o for_squares(<< >>, p, intersect(p.rooks, to_play), "Rook", capture)
    \o for_squares(<< >>, p, intersect(p.bishops, to_play), "Bishop", capture)
    \o for_squares(<< >>, p, intersect(p.pawns, to_play), "Pawn", capture)
    \o for_squares(<< >>, p, intersect(p.kings, to_play), "King", capture)

generate_moves(moves, p, capture) ==
    IF count(p.kings) < 2 THEN moves
    ELSE generate_groups(moves, p, by_color(p, p.white_to_play), capture)

\* The state of the `for mv in moves` loop of is_check: the Position (null
\* move applied) and, once the function has returned (done), its
\* Result<bool, String> as ok and check.
CheckState(done, ok, check, p) == [done |-> done, ok |-> ok, check |-> check, pos |-> p]

\* The loop body after undo_move returned u; kings was counted before it.
is_check_undone(kings, u) ==
    IF ~u.ok THEN CheckState(TRUE, FALSE, FALSE, u.pos)
    ELSE IF kings < 2 THEN CheckState(TRUE, TRUE, TRUE, undo_null_move(u.pos))
    ELSE CheckState(FALSE, TRUE, FALSE, u.pos)

\* The loop body after do_move returned d.
is_check_moved(d) ==
    IF ~d.ok THEN CheckState(TRUE, FALSE, FALSE, d.pos)
    ELSE is_check_undone(count(d.pos.kings), undo_move(d.pos, d.past[1]))

\* One iteration of the loop.
is_check_step(st, mv) == is_check_moved(do_move(st.pos, mv))

\* The iterations lo..hi of the loop, in order, stopping at a return.
RECURSIVE is_check_loop(_, _, _, _)
is_check_loop(st, moves, lo, hi) ==
    IF st.done \/ lo > hi THEN st
    ELSE IF lo = hi THEN is_check_step(st, moves[lo])
    ELSE is_check_loop(is_check_loop(st, moves, lo, (lo + hi) \div 2),
                       moves, (lo + hi) \div 2 + 1, hi)

\* is_check after the loop: st is the loop's last state.
is_check_end(st) ==
    IF st.done THEN [ok |-> st.ok, check |-> st.check, pos |-> st.pos]
    ELSE [ok |-> TRUE, check |-> FALSE, pos |-> undo_null_move(st.pos)]

\* is_check after the null move (Position n) and generate_moves.
is_check_moves(n, moves) ==
    is_check_end(is_check_loop(CheckState(FALSE, TRUE, FALSE, n), moves, 1, Len(moves)))

\* Position::is_check: Result<bool, String> and the Position afterwards.
is_check(p) ==
    is_check_moves(do_null_move(p), generate_moves(<< >>, do_null_move(p), TRUE))

\* The state of the `for mv in pseudo_legal` loop of generate_legal_moves: the
\* buffer, the Position, and whether the function has returned Err (done).
LegalState(done, moves, p) == [done |-> done, moves |-> moves, pos |-> p]

\* The loop body after undo_move returned u; c is what is_check returned.
legal_undone(st, mv, c, u) ==
    LegalState(~u.ok, IF ~c.check THEN Append(st.moves, mv) ELSE st.moves, u.pos)

\* The loop body after is_check returned c; d is what do_move returned.
legal_checked(st, mv, d, c) ==
    IF ~c.ok THEN LegalState(TRUE, st.moves, c.pos)
    ELSE legal_undone(st, mv, c, undo_move(undo_null_move(c.pos), d.past[1]))

\* The loop body after do_move returned d.
legal_moved(st, mv, d) ==
    IF ~d.ok THEN LegalState(TRUE, st.moves, d.pos)
    ELSE legal_checked(st, mv, d, is_check(do_null_move(d.pos)))

\* One iteration of the loop.
legal_step(st, mv) == legal_moved(st, mv, do_move(st.pos, mv))

\* The iterations lo..hi of the loop, in order, stopping at a return.
RECURSIVE legal_loop(_, _, _, _)
legal_loop(st, pseudo_legal, lo, hi) ==
    IF st.done \/ lo > hi THEN st
    ELSE IF lo = hi THEN legal_step(st, pseudo_legal[lo])
    ELSE legal_loop(legal_loop(st, pseudo_legal, lo, (lo + hi) \div 2),
                    pseudo_legal, (lo + hi) \div 2 + 1, hi)

\* generate_legal_moves after the loop: st is the loop's last state.
legal_end(st) == [ok |-> ~st.done, moves |-> st.moves, pos |-> st.pos]

\* generate_legal_moves on the pseudo-legal moves.
legal_filter(moves, p, pseudo_legal) ==
    legal_end(legal_loop(LegalState(FALSE, moves, p), pseudo_legal, 1, Len(pseudo_legal)))

\* generate_legal_moves: Result<(), String>, the buffer and the Position afterwards.
generate_legal_moves(moves, p) ==
    legal_filter(moves, p, generate_moves(generate_moves(<< >>, p, TRUE), p, FALSE))

----------------------------------------------------------------------------
(* main.rs, the "position" command: Position::start() followed by do_move   *)
(* of each listed move.  A move is written here by its four coordinates,    *)
(* file and rank of the source then of the destination, counted from 0      *)
(* (so <<4, 1, 4, 3>> is e2e4), with its promotion type when it has one.    *)

MoveOf(t) ==
    Move(Square(t[2], t[1]), Square(t[4], t[3]),
         IF Len(t) > 4 THEN Some(t[5]) ELSE None)

\* One iteration of the loop at main.rs:271-273 after do_move returned d; an
\* error ends the command (and the program), which ok = FALSE records.
position_moved(d) == [ok |-> d.ok, pos |-> d.pos]

\* One iteration of that loop.
position_step(st, part) == position_moved(do_move(st.pos, MoveOf(part)))

\* The iterations lo..hi of that loop, in order, stopping at an error.
RECURSIVE position_moves(_, _, _, _)
position_moves(st, parts, lo, hi) ==
    IF ~st.ok \/ lo > hi THEN st
    ELSE IF lo = hi THEN position_step(st, parts[lo])
    ELSE position_moves(position_moves(st, parts, lo, (lo + hi) \div 2),
                        parts, (lo + hi) \div 2 + 1, hi)

position_command(parts) ==
    position_moves([ok |-> TRUE, pos |-> start], parts, 1, Len(parts))

\* Both white castles open: Nf3 Nf6 e3 e6 Bd3 Bd6 Nc3 Nc6 b3 b6 Bb2 Bb7 Qe2 Qe7
LineCastle ==
    << <<6,0,5,2>>, <<6,7,5,5>>, <<4,1,4,2>>, <<4,6,4,5>>, <<5,0,3,2>>, <<5,7,3,5>>,
       <<1,0,2,2>>, <<1,7,2,5>>, <<1,1,1,2>>, <<1,6,1,5>>, <<2,0,1,1>>, <<2,7,1,6>>,
       <<3,0,4,1>>, <<3,7,4,6>> >>

\* Rooks off their home files: a4 a5 Ra3 Ra6 Rd3 Rd6
LineRook ==
    << <<0,1,0,3>>, <<0,6,0,4>>, <<0,0,0,2>>, <<0,7,0,5>>, <<0,2,3,2>>, <<0,5,3,5>> >>

\* A white pawn on b7 with b8 empty: a4 b5 axb5 Na6 b6 h6 b7 h5
LinePawn ==
    << <<0,1,0,3>>, <<1,6,1,4>>, <<0,3,1,4>>, <<1,7,0,5>>, <<1,4,1,5>>, <<7,6,7,5>>,
       <<1,5,1,6>>, <<7,5,7,4>> >>

\* A white pawn on e5, black to move with d7-d5 available: e4 a6 e5
LinePassant == << <<4,1,4,3>>, <<0,6,0,5>>, <<4,3,4,4>> >>

\* White to capture a king: e4 f6 Nh3 a6 Bc4 a5 Qh5 a4 (the queen on h5 sees e8)
LineKing ==
    << <<4,1,4,3>>, <<5,6,5,5>>, <<6,0,7,2>>, <<0,6,0,5>>, <<5,0,2,3>>, <<0,5,0,4>>,
       <<3,0,7,4>>, <<0,4,0,3>> >>

\* LineCastle, then the h-file rooks out and back: Rg1 Rg8 Rh1 Rh8
LineShort ==
    LineCastle \o << <<7,0,6,0>>, <<7,7,6,7>>, <<6,0,7,0>>, <<6,7,7,7>> >>

\* LineKing, then the queen takes the king: Qxe8
LineKingTaken == Append(LineKing, <<7,4,4,7>>)

\* Both kings taken, as the position command applies whatever it is given:
\* e8e1 (the black king onto the white one), d1e1
LineNoKings == << <<4,7,4,0>>, <<3,0,4,0>> >>

\* A black knight has taken the rook on h1 with the king's side cleared and
\* neither king nor rook moved: e4 Nf6 Bc4 Nxe4 Nf3 Nxf2 a3 Nxh1
LineRookTaken ==
    << <<4,1,4,3>>, <<6,7,5,5>>, <<5,0,2,3>>, <<5,5,4,3>>, <<6,0,5,2>>, <<4,3,5,1>>,
       <<0,1,0,2>>, <<5,1,7,0>> >>

Lines ==
    { << >>, LineCastle, LineRook, LinePawn, LinePassant, LineKing, LineShort,
      LineKingTaken, LineNoKings, LineRookTaken }

----------------------------------------------------------------------------
(* The Position under calls of do_move, undo_move and the null moves.       *)

\* The most calls made on the Position in one run.
MaxCalls == 2

Call(op, mv, past, before, ok) ==
    [op |-> op, mv |-> mv, past |-> past, before |-> before, ok |-> ok]

Pending(is_null, past) == [is_null |-> is_null, past |-> past]

\* The call do_move(mv) on Position before, d being what it returned.
DoMoveReturned(before, mv, d) == Call("do_move", Some(mv), d.past, before, d.ok)

DoMoveOn(before, mv) == DoMoveReturned(before, mv, do_move(before, mv))

\* The n-th call of the position command on the moves of line l: Position::start()
\* for n = 0, the do_move of the n-th move otherwise.
LineCall(l, n) ==
    IF n < 1 THEN Call("start", None, None, start, TRUE)
    ELSE DoMoveOn(position_command(SubSeq(l, 1, n - 1)).pos, MoveOf(l[n]))

\* The most "go" commands the command loop is given.
MaxRequests == 2

Requests == 1..MaxRequests

\* The thread of a request: pc is where it stands, depth its depth counter,
\* pos its clone of the Position, past the past_move of each minimax call in
\* progress (innermost last), late the number of do_move calls it has made
\* with the cancel flag set.
Worker(pc, depth, p) == [pc |-> pc, depth |-> depth, pos |-> p, past |-> << >>, late |-> 0]

\* main.rs:246: the Mutex, held by the worker of request holder (0: free).
Mutex(holder, poisoned) == [holder |-> holder, poisoned |-> poisoned]

\* No search has been requested.
NoSearch ==
    /\ worker = [r \in Requests |-> Worker("none", 0, start)]
    /\ frames = [r \in Requests |-> << >>]
    /\ ret = [r \in Requests |-> None]
    /\ ctx = [move_lists |-> 0, nodes |-> 0]
    /\ mutex = Mutex(0, FALSE)
    /\ is_done = [r \in Requests |-> FALSE]
    /\ channel = [r \in Requests |-> << >>]
    /\ controller = [pc |-> "none", best_move |-> None, request |-> 0]
    /\ output = << >>

InitLine(l) ==
    /\ pos = position_command(l).pos
    /\ undo_stack = << >>
    /\ last = LineCall(l, Len(l))
    /\ prior = LineCall(l, Len(l) - 1)
    /\ calls = 0
    /\ NoSearch

Init == \E l \in Lines : InitLine(l)

\* The elements of a sequence.
Range(seq) == { seq[i] : i \in 1..Len(seq) }

\* The moves generate_moves emits for p with the given capture flag, as a set.
Generated(p, capture) == Range(generate_moves(<< >>, p, capture))

\* do_move of mv; the record it returns is kept for the matching undo_move.
DoMoveStep(mv, d) ==
    /\ pos' = d.pos
    /\ undo_stack' = IF d.ok THEN Append(undo_stack, Pending(FALSE, d.past))
                             ELSE undo_stack
    /\ last' = DoMoveReturned(pos, mv, d)
    /\ prior' = last
    /\ calls' = calls + 1
    /\ UNCHANGED search_vars

DoMoveCall(mv) == DoMoveStep(mv, do_move(pos, mv))

\* undo_move with the record past.
UndoMoveStep(past, u) ==
    /\ pos' = u.pos
    /\ last' = Call("undo_move", Some(past.mv), Some(past), pos, u.ok)
    /\ prior' = last
    /\ calls' = calls + 1
    /\ UNCHANGED search_vars

UndoMoveCall(past) == UndoMoveStep(past, undo_move(pos, past))

\* do_move of a move that generate_moves emitted for the current Position.
CallDoMove ==
    /\ calls < MaxCalls
    /\ \E capture \in BOOLEAN : \E mv \in Generated(pos, capture) : DoMoveCall(mv)

\* undo_move with the record of the innermost pending do_move.
CallUndoMove ==
    /\ calls < MaxCalls
    /\ undo_stack # << >>
    /\ ~undo_stack[Len(undo_stack)].is_null
    /\ UndoMoveCall(undo_stack[Len(undo_stack)].past[1])
    /\ undo_stack' = SubSeq(undo_stack, 1, Len(undo_stack) - 1)

CallDoNullMove ==
    /\ calls < MaxCalls
    /\ pos' = do_null_move(pos)
    /\ undo_stack' = Append(undo_stack, Pending(TRUE, None))
    /\ last' = Call("do_null_move", None, None, pos, TRUE)
    /\ prior' = last
    /\ calls' = calls + 1
    /\ UNCHANGED search_vars

CallUndoNullMove ==
    /\ calls < MaxCalls
    /\ undo_stack # << >>
    /\ undo_stack[Len(undo_stack)].is_null
    /\ pos' = undo_null_move(pos)
    /\ undo_stack' = SubSeq(undo_stack, 1, Len(undo_stack) - 1)
    /\ last' = Call("undo_null_move", None, None, pos, TRUE)
    /\ prior' = last
    /\ calls' = calls + 1
    /\ UNCHANGED search_vars

Next ==
    \/ CallDoMove
    \/ CallUndoMove
    \/ CallDoNullMove
    \/ CallUndoNullMove

Spec == Init /\ [][Next]_vars

----------------------------------------------------------------------------
(* The Positions on which the search calls generate_moves: those that one   *)
(* more do_move of a generated move, or one more null move (as evaluate     *)
(* makes after it), reaches.                                                *)

\* The most calls made before generate_moves is examined.
MaxGenCalls == 1

GenDoMove ==
    /\ calls < MaxGenCalls
    /\ \E capture \in BOOLEAN : \E mv \in Generated(pos, capture) : DoMoveCall(mv)

GenDoNullMove ==
    /\ calls < MaxGenCalls
    /\ pos' = do_null_move(pos)
    /\ undo_stack' = Append(undo_stack, Pending(TRUE, None))
    /\ last' = Call("do_null_move", None, None, pos, TRUE)
    /\ prior' = last
    /\ calls' = calls + 1
    /\ UNCHANGED search_vars

NextGen ==
    \/ GenDoMove
    \/ GenDoNullMove

SpecGen == Init /\ [][NextGen]_vars

----------------------------------------------------------------------------
(* The Position under the calls any caller can make: do_move of any move,   *)
(* as the position command passes on whatever it parsed, and undo_move of   *)
(* any record a do_move returned, in any order and more than once           *)
(* (PastMove is Copy).  undo_stack here only grows: it is the log of the    *)
(* records returned so far.                                                 *)

\* Moves that generate_moves does not emit in the Positions below: e5d6 (a pawn
\* capture onto an empty square), e5e1 (onto the own king), e3e4 (from an empty
\* square), e1g1 (a king across two files), e7e8q (a promotion onto the king).
ProbeMoves ==
    { MoveOf(<<4,4,3,5>>), MoveOf(<<4,4,4,0>>), MoveOf(<<4,2,4,3>>),
      MoveOf(<<4,0,6,0>>), MoveOf(<<4,6,4,7,"Queen">>) }

CmdLines == { LinePassant, LineKing }

\* The record that the last do_move of the line returned is still at hand.
InitCmd ==
    \E l \in CmdLines :
        /\ pos = position_command(l).pos
        /\ last = LineCall(l, Len(l))
        /\ prior = LineCall(l, Len(l) - 1)
        /\ undo_stack = << Pending(FALSE, last.past) >>
        /\ calls = 0
        /\ NoSearch

CmdDoMove ==
    /\ calls < MaxCalls
    /\ \E mv \in Generated(pos, TRUE) \cup Generated(pos, FALSE) \cup ProbeMoves :
           DoMoveCall(mv)

CmdUndoMove ==
    /\ calls < MaxCalls
    /\ \E i \in 1..Len(undo_stack) : UndoMoveCall(undo_stack[i].past[1])
    /\ UNCHANGED undo_stack

NextCmd ==
    \/ CmdDoMove
    \/ CmdUndoMove

SpecCmd == InitCmd /\ [][NextCmd]_vars

----------------------------------------------------------------------------
(* main.rs, the search.  An f32 score is a record: nan for NaN, inf = -1 or *)
(* 1 for the infinities, and for a finite score its value val counted in    *)
(* twentieths, the unit in which every term of the evaluation is a whole    *)
(* number (a pawn is 20, a legal move 2, a doubled pawn -5).                *)

F32(v) == [nan |-> FALSE, inf |-> 0, val |-> v]

NEG_INFINITY == [nan |-> FALSE, inf |-> -1, val |-> 0]

INFINITY == [nan |-> FALSE, inf |-> 1, val |-> 0]

NAN == [nan |-> TRUE, inf |-> 0, val |-> 0]

\* score * -1f32
f32_neg(a) == [nan |-> a.nan, inf |-> -a.inf, val |-> -a.val]

f32_add(a, b) ==
    IF a.nan \/ b.nan \/ a.inf * b.inf < 0 THEN NAN
    ELSE IF a.inf # 0 THEN a
    ELSE IF b.inf # 0 THEN b
    ELSE F32(a.val + b.val)

f32_sub(a, b) == f32_add(a, f32_neg(b))

\* a == b: a NaN equals nothing, itself included.
f32_eq(a, b) == ~a.nan /\ ~b.nan /\ a = b

\* a > b
f32_gt(a, b) ==
    /\ ~a.nan
    /\ ~b.nan
    /\ \/ a.inf > b.inf
       \/ a.inf = 0 /\ b.inf = 0 /\ a.val > b.val

\* a >= b
f32_ge(a, b) ==
    /\ ~a.nan
    /\ ~b.nan
    /\ \/ a.inf > b.inf
       \/ a.inf = b.inf /\ (a.inf # 0 \/ a.val >= b.val)

\* SearchContext: move_lists is the number of pooled buffers (a buffer is
\* cleared when it is taken, so its contents do not matter), nodes the counter.
SearchContext(move_lists, nodes) == [move_lists |-> move_lists, nodes |-> nodes]

new == SearchContext(0, 0)

reset(c) == SearchContext(c.move_lists, 0)

\* The context after get_move_vec: a pooled buffer is popped when there is one.
get_move_vec(c) ==
    SearchContext(IF c.move_lists > 0 THEN c.move_lists - 1 ELSE 0, c.nodes)

return_move_vec(c) == SearchContext(c.move_lists + 1, c.nodes)

\* The material terms of evaluate_to_play (main.rs:86-91).
material(p, to_play) ==
    count(intersect(to_play, p.kings)) * 4000
    + count(intersect(to_play, p.queens)) * 180
    + count(intersect(to_play, p.rooks)) * 100
    + count(intersect(to_play, p.bishops)) * 60
    + count(intersect(to_play, p.knights)) * 60
    + count(intersect(to_play, p.pawns)) * 20

\* The pawns the loop at main.rs:94-105 finds doubled.
doubled(pawns) ==
    { i \in pawns : count(intersect(pawns, bitboard_file(i \div 8))) > 1 }

\* The pawns that loop finds isolated.
isolated(pawns) ==
    { i \in pawns : /\ count(intersect(pawns, bitboard_file(i \div 8 + 1))) = 0
                    /\ count(intersect(pawns, bitboard_file(i \div 8 - 1))) = 0 }

\* The loop over the pawns: -0.25 for a doubled pawn, -0.5 for an isolated one.
pawn_structure(pawns) ==
    0 - 5 * Cardinality(doubled(pawns)) - 10 * Cardinality(isolated(pawns))

\* evaluate_to_play once the side to play is known to have a king.
evaluate_with_king(c, p, to_play) ==
    [score |-> F32(material(p, to_play)
                   + pawn_structure(intersect(p.pawns, to_play))
                   + Len(generate_moves(<< >>, p, FALSE)) * 2),
     ctx |-> return_move_vec(get_move_vec(c))]

evaluate_side(c, p, to_play) ==
    IF count(intersect(p.kings, to_play)) = 0
    THEN [score |-> NEG_INFINITY, ctx |-> c]
    ELSE evaluate_with_king(c, p, to_play)

\* evaluate_to_play: the score and the context afterwards.
evaluate_to_play(c, p) == evaluate_side(c, p, by_color(p, p.white_to_play))

\* evaluate without its undo_null_move.
evaluate_unrestored(a, b, n) ==
    [score |-> f32_sub(a.score, b.score), ctx |-> b.ctx, pos |-> n]

\* evaluate after both evaluate_to_play calls returned a and b; n is the
\* Position under the null move.
evaluate_scored(a, b, n) ==
    [score |-> f32_sub(a.score, b.score), ctx |-> b.ctx, pos |-> undo_null_move(n)]

evaluate_first(a, n) == evaluate_scored(a, evaluate_to_play(a.ctx, n), n)

\* evaluate: the score, the context and the Position afterwards.
evaluate(c, p) == evaluate_first(evaluate_to_play(c, p), do_null_move(p))

\* MoveChain::new: an Option<MoveChain> is None or Some of the moves of the chain.
MoveChain(current, next) ==
    Some(<<current>> \o (IF next = None THEN << >> ELSE next[1]))

\* A load that never sees the flag set.
load_unset(flag) == FALSE

\* AtomicBool::load on the cancel flag (main.rs:155 and 197).
load(flag) == flag

\* One minimax call: its arguments, and once its loop runs the moves of its
\* buffer, the index of the move it is at (next), alpha and best_chain.  entry
\* is the Position the call was made on.
Frame(depth, is_root, alpha, beta, entry) ==
    [depth |-> depth, is_root |-> is_root, alpha |-> alpha, beta |-> beta,
     moves |-> << >>, next |-> 1, best_chain |-> None, entry |-> entry]

\* Where a minimax call stands after a stretch of its code: it has returned
\* Ok((score, chain)) or Err (ok = FALSE), or it is inside its loop (frame);
\* cancelled tells the return at main.rs:156 from the others; c and p are
\* the context and the Position at that point.
Outcome(returned, ok, cancelled, score, chain, frame, c, p) ==
    [returned |-> returned, ok |-> ok, cancelled |-> cancelled, score |-> score,
     chain |-> chain, frame |-> frame, ctx |-> c, pos |-> p]

Failed(frame, c, p) == Outcome(TRUE, FALSE, FALSE, NEG_INFINITY, None, frame, c, p)

\* main.rs:127-130, e being what evaluate returned.
minimax_leaf(frame, e) ==
    Outcome(TRUE, TRUE, FALSE, e.score, None, frame, e.ctx, e.pos)

\* main.rs:140-146 with an empty buffer, chk being what is_check returned.
minimax_no_moves_drawn(frame, c, chk) ==
    IF ~chk.ok THEN Failed(frame, c, chk.pos)
    ELSE Outcome(TRUE, TRUE, FALSE, F32(0), None, frame, c, chk.pos)

minimax_no_moves(frame, c, chk) ==
    IF ~chk.ok THEN Failed(frame, c, chk.pos)
    ELSE IF chk.check
    THEN Outcome(TRUE, TRUE, FALSE, NEG_INFINITY, None, frame, c, chk.pos)
    ELSE Outcome(TRUE, TRUE, FALSE, F32(0), None, frame, c, chk.pos)

\* main.rs:133-138: the buffer after generation, with the Position.
minimax_generate(p, is_root) ==
    IF is_root THEN generate_legal_moves(<< >>, p)
    ELSE [ok |-> TRUE, pos |-> p,
          moves |-> generate_moves(generate_moves(<< >>, p, TRUE), p, FALSE)]

\* main.rs:132-148, m being what the generation produced.
minimax_moves(frame, c, m) ==
    IF ~m.ok THEN Failed(frame, c, m.pos)
    ELSE IF Len(m.moves) = 0 THEN minimax_no_moves(frame, c, is_check(m.pos))
    ELSE Outcome(FALSE, TRUE, FALSE, NEG_INFINITY, None,
                 [frame EXCEPT !.moves = m.moves], c, m.pos)

counted(c) == SearchContext(c.move_lists, c.nodes + 1)

\* minimax from its entry to its first return or to the head of its loop.
minimax_entered(frame, c, p) ==
    IF frame.depth < 1 THEN minimax_leaf(frame, evaluate(c, p))
    ELSE minimax_moves(frame, get_move_vec(c), minimax_generate(p, frame.is_root))

minimax(c, p, depth, is_root, alpha, beta) ==
    minimax_entered(Frame(depth, is_root, alpha, beta, p), counted(c), p)

\* main.rs:167-168.
minimax_loop_end(frame, alpha, best_chain, c, p) ==
    Outcome(TRUE, TRUE, FALSE, alpha, best_chain, frame, return_move_vec(c), p)

\* The end of an iteration that did not break.
minimax_next(frame, alpha, best_chain, c, p) ==
    IF frame.next >= Len(frame.moves)
    THEN minimax_loop_end(frame, alpha, best_chain, c, p)
    ELSE Outcome(FALSE, TRUE, FALSE, NEG_INFINITY, None,
                 [frame EXCEPT !.alpha = alpha, !.best_chain = best_chain,
                               !.next = frame.next + 1],
                 c, p)

\* main.rs:159-165.
\* A loop that breaks at the first score above alpha.
minimax_scored_first(frame, mv, score, chain, c, p) ==
    IF f32_gt(score, frame.alpha)
    THEN minimax_loop_end(frame, score, MoveChain(mv, chain), c, p)
    ELSE minimax_next(frame, frame.alpha, frame.best_chain, c, p)

minimax_scored(frame, mv, score, chain, c, p) ==
    IF f32_gt(score, frame.alpha)
    THEN IF f32_ge(score, frame.beta)
         THEN minimax_loop_end(frame, score, MoveChain(mv, chain), c, p)
         ELSE minimax_next(frame, score, MoveChain(mv, chain), c, p)
    ELSE minimax_next(frame, frame.alpha, frame.best_chain, c, p)

\* A call that goes on to compare the score whatever the flag.
minimax_undone_unflagged(frame, mv, score, chain, u, done, c) ==
    IF ~u.ok THEN Failed(frame, c, u.pos)
    ELSE minimax_scored(frame, mv, score, chain, c, u.pos)

\* main.rs:153-157, u being what undo_move returned and done the flag as loaded.
minimax_undone(frame, mv, score, chain, u, done, c) ==
    IF ~u.ok THEN Failed(frame, c, u.pos)
    ELSE IF done THEN Outcome(TRUE, TRUE, TRUE, NEG_INFINITY, None, frame, c, u.pos)
    ELSE minimax_scored(frame, mv, score, chain, c, u.pos)

\* main.rs:151-165 once the recursive call has returned r.
minimax_returned(frame, r, past, done, c, p) ==
    IF ~r.ok THEN Failed(frame, c, p)
    ELSE minimax_undone(frame, frame.moves[frame.next], f32_neg(r.score), r.chain,
                        undo_move(p, past), done, c)

\* What a returned call hands to its caller; flag is the cancel flag when it
\* returned.
Result(o, flag) ==
    [ok |-> o.ok, score |-> o.score, chain |-> o.chain, cancelled |-> o.cancelled,
     flagged |-> flag, depth |-> o.frame.depth, is_root |-> o.frame.is_root,
     entry |-> o.frame.entry]

\* The deepest search the worker starts with the cancel flag unset.
MaxDepth == 2

\* Fool's mate, white to move and mated: f3 e5 g4 Qh4
LineMate == << <<5,1,5,2>>, <<4,6,4,4>>, <<6,1,6,3>>, <<3,7,7,3>> >>

\* Black to move and stalemated: e3 a5 Qh5 Ra6 Qxa5 h5 h4 Rah6 Qxc7 f6 Qxd7 Kf7
\* Qxb7 Qd3 Qxb8 Qh7 Qxc8 Kg6 Qe6
LineStalemate ==
    << <<4,1,4,2>>, <<0,6,0,4>>, <<3,0,7,4>>, <<0,7,0,5>>, <<7,4,0,4>>, <<7,6,7,4>>,
       <<7,1,7,3>>, <<0,5,7,5>>, <<0,4,2,6>>, <<5,6,5,5>>, <<2,6,3,6>>, <<4,7,5,6>>,
       <<3,6,1,6>>, <<3,7,3,2>>, <<1,6,1,7>>, <<3,2,7,6>>, <<1,7,2,7>>, <<5,6,6,5>>,
       <<2,7,4,5>> >>

\* Black to move, in check with three replies, of which the capture of the
\* checking bishop is the best at depth 1 and loses the queen at depth 2:
\* Nf3 e5 Ng5 Qe7 e4 d6 Bc4 a6 Bxf7
LineCheck ==
    << <<6,0,5,2>>, <<4,6,4,4>>, <<5,2,6,4>>, <<3,7,4,6>>, <<4,1,4,3>>, <<3,6,3,5>>,
       <<5,0,2,3>>, <<0,6,0,5>>, <<2,3,5,6>> >>

\* LineRookTaken, then the bishop checks: Bxf7.  Black has the one reply Kxf7,
\* after which white's moves include the short castle.
LineCastleCheck == Append(LineRookTaken, <<2,3,5,6>>)

SearchLines == { LineMate, LineStalemate, LineCheck, LineCastleCheck }

\* The command loop has run a position command and no "go" yet.
InitSearch == \E l \in SearchLines : InitLine(l)

\* main.rs:276-278, 171-179, 223: the "go" command; iterative_deepening makes
\* the channel and the flag, spawns the worker on a clone of the Position and
\* reaches the head of its loop.  The command loop reads "go" only after the
\* iterative_deepening call before it has returned.
CommandGo ==
    /\ controller.pc \in {"none", "returned"}
    /\ controller.request < MaxRequests
    /\ worker' = [worker EXCEPT ![controller.request + 1] = Worker("spawned", 0, pos)]
    /\ controller' = [pc |-> "loop", best_move |-> None,
                      request |-> controller.request + 1]
    /\ UNCHANGED <<position_vars, frames, ret, ctx, mutex, is_done, channel, output>>

\* The receiver of request r is gone: iterative_deepening has returned from it.
Dropped(r) ==
    \/ controller.request > r
    \/ controller.request = r /\ controller.pc = "returned"

\* A lock() that no thread is in the way of.
can_lock_always(m) == TRUE

\* main.rs:180: lock() blocks while another thread holds the guard.
can_lock(m) == m.holder = 0

\* main.rs:221: the guard is dropped when the thread ends; a thread that ends
\* in a panic poisons the Mutex.
unlock(m, panicked) == Mutex(0, m.poisoned \/ panicked)

\* The worker of request r has ended at pc: the thread's locals are gone.
Ended(r, pc) ==
    /\ worker' = [worker EXCEPT ![r] = Worker(pc, 0, start)]
    /\ ret' = [ret EXCEPT ![r] = None]

\* main.rs:180-182: the worker locks the context; unwrap panics on a poisoned
\* Mutex and the guard is dropped with it.
WorkerStart(r) ==
    /\ worker[r].pc = "spawned"
    /\ can_lock(mutex)
    /\ IF mutex.poisoned
       THEN /\ Ended(r, "panicked")
            /\ mutex' = mutex
       ELSE /\ worker' = [worker EXCEPT ![r].pc = "loop", ![r].depth = 1]
            /\ ret' = ret
            /\ mutex' = Mutex(r, FALSE)
    /\ UNCHANGED <<position_vars, frames, ctx, is_done, channel, controller, output>>

\* The minimax call made by the worker of request r, w, with Outcome o: it has
\* returned, or it is a new frame.
Called(r, w, o) ==
    /\ worker' = [worker EXCEPT ![r] = [w EXCEPT !.pos = o.pos]]
    /\ ctx' = o.ctx
    /\ ret' = [ret EXCEPT ![r] = IF o.returned THEN Some(Result(o, is_done[r])) ELSE None]
    /\ frames' = [frames EXCEPT ![r] = IF o.returned THEN @ ELSE Append(@, o.frame)]

\* main.rs:185-195: the root call of one depth.  Depths beyond MaxDepth are
\* searched only with the flag set, where the search is a single line of moves.
WorkerSearch(r) ==
    /\ worker[r].pc = "loop"
    /\ worker[r].depth <= MaxDepth \/ is_done[r]
    /\ \E o \in { minimax(reset(ctx), worker[r].pos, worker[r].depth, TRUE,
                           NEG_INFINITY, INFINITY) } :
           Called(r, [worker[r] EXCEPT !.pc = "search"], o)
    /\ UNCHANGED <<position_vars, mutex, is_done, channel, controller, output>>

\* The count of do_move calls made with the flag set, after one more do_move;
\* it is not counted beyond MaxDepth + 2, which no search of the worker reaches.
Late(late, flag) == IF flag /\ late < MaxDepth + 2 THEN late + 1 ELSE late

\* main.rs:150-151 in the innermost call, d being what do_move returned.
Descended(r, frame, d) ==
    IF d.ok
    THEN \E o \in { minimax(ctx, d.pos, frame.depth - 1, FALSE,
                              f32_neg(frame.beta), f32_neg(frame.alpha)) } :
             Called(r, [worker[r] EXCEPT !.past = Append(@, d.past[1]),
                                         !.late = Late(@, is_done[r])], o)
    ELSE /\ worker' = [worker EXCEPT ![r].pos = d.pos]
         /\ ctx' = ctx
         /\ ret' = [ret EXCEPT ![r] = Some(Result(Failed(frame, ctx, d.pos), is_done[r]))]
         /\ frames' = [frames EXCEPT ![r] = SubSeq(@, 1, Len(@) - 1)]

MinimaxDescend(r) ==
    /\ worker[r].pc = "search"
    /\ frames[r] # << >>
    /\ ret[r] = None
    /\ \E d \in { do_move(worker[r].pos,
                           frames[r][Len(frames[r])].moves[frames[r][Len(frames[r])].next]) } :
           Descended(r, frames[r][Len(frames[r])], d)
    /\ UNCHANGED <<position_vars, mutex, is_done, channel, controller, output>>

\* The innermost call of request r after its recursive call returned, at
\* Outcome o.
Resumed(r, o) ==
    /\ worker' = [worker EXCEPT ![r].pos = o.pos,
                                ![r].past = SubSeq(@, 1, Len(@) - 1)]
    /\ ctx' = o.ctx
    /\ ret' = [ret EXCEPT ![r] = IF o.returned THEN Some(Result(o, is_done[r])) ELSE None]
    /\ frames' = [frames EXCEPT ![r] = IF o.returned THEN SubSeq(@, 1, Len(@) - 1)
                                       ELSE [@ EXCEPT ![Len(@)] = o.frame]]

\* main.rs:151-168 in the innermost call.
MinimaxResume(r) ==
    /\ worker[r].pc = "search"
    /\ frames[r] # << >>
    /\ ret[r] # None
    /\ \E o \in { minimax_returned(frames[r][Len(frames[r])], ret[r][1],
                                    worker[r].past[Len(worker[r].past)],
                                    load(is_done[r]), ctx, worker[r].pos) } :
           Resumed(r, o)
    /\ UNCHANGED <<position_vars, mutex, is_done, channel, controller, output>>

\* main.rs:195-199: unwrap of the root call's result, then the flag; the
\* thread ends on a panic and on the break.
WorkerCheck(r) ==
    /\ worker[r].pc = "search"
    /\ frames[r] = << >>
    /\ ret[r] # None
    /\ IF ~ret[r][1].ok
       THEN /\ Ended(r, "panicked")
            /\ mutex' = unlock(mutex, TRUE)
       ELSE IF load(is_done[r])
       THEN /\ Ended(r, "done")
            /\ mutex' = unlock(mutex, FALSE)
       ELSE /\ worker' = [worker EXCEPT ![r].pc = "report"]
            /\ ret' = ret
            /\ mutex' = mutex
    /\ UNCHANGED <<position_vars, frames, ctx, is_done, channel, controller, output>>

\* The progress line of main.rs:210-217.
Info(depth, chain) == [line |-> "info", depth |-> depth, pv |-> chain]

BestMove(mv) == [line |-> "bestmove", depth |-> 0, pv |-> <<mv>>]

\* main.rs:206-219: the move is sent unless the receiver is gone, in which
\* case the thread ends.
WorkerReport(r) ==
    /\ worker[r].pc = "report"
    /\ IF ret[r][1].chain = None
       THEN /\ worker' = [worker EXCEPT ![r].pc = "loop", ![r].depth = @ + 1]
            /\ ret' = [ret EXCEPT ![r] = None]
            /\ UNCHANGED <<mutex, channel, output>>
       ELSE IF Dropped(r)
       THEN /\ Ended(r, "done")
            /\ mutex' = unlock(mutex, FALSE)
            /\ UNCHANGED <<channel, output>>
       ELSE /\ worker' = [worker EXCEPT ![r].pc = "loop", ![r].depth = @ + 1]
            /\ ret' = [ret EXCEPT ![r] = None]
            /\ channel' = [channel EXCEPT ![r] = Append(@, ret[r][1].chain[1][1])]
            /\ output' = Append(output, Info(worker[r].depth, ret[r][1].chain[1]))
            /\ mutex' = mutex
    /\ UNCHANGED <<position_vars, frames, ctx, is_done, controller>>

\* The root call on the worker's Position returns without a recursive call, as
\* it then does at every depth >= 1.
ReturnsAtOnce(r) ==
    minimax(reset(ctx), worker[r].pos, 1, TRUE, NEG_INFINITY, INFINITY).returned

\* main.rs:219 once depth has reached i32::MAX, which a worker whose root call
\* returns at once does after 2^31 - 1 rounds of its loop that differ in depth
\* alone: with overflow checks (debug build) depth += 1 panics; without them
\* (release build) depth wraps to i32::MIN and the loop goes on, through
\* depths below 1 where minimax returns the evaluation and no move.
WorkerOverflow(r) ==
    /\ worker[r].pc = "loop"
    /\ worker[r].depth > MaxDepth
    /\ ~is_done[r]
    /\ ReturnsAtOnce(r)
    /\ \/ /\ Ended(r, "panicked")
          /\ mutex' = unlock(mutex, TRUE)
       \/ /\ worker' = [worker EXCEPT ![r].pc = "wrapped"]
          /\ ret' = ret
          /\ mutex' = mutex
    /\ UNCHANGED <<position_vars, frames, ctx, is_done, channel, controller, output>>

\* main.rs:186-209 at a depth beyond MaxDepth with the flag unset and the
\* receiver gone, on a Position whose root call does not return at once.  The
\* calls of that search are not modelled: the tree is finite, so the root call
\* returns; a root with a legal move returns a move at depth MaxDepth + 1,
\* since no line of that length ends without a king; tx.send fails and the
\* thread ends.  A completed search of depth d leaves d + 1 buffers pooled,
\* and its node count is reset before anything reads it.
WorkerBeyond(r) ==
    /\ worker[r].pc = "loop"
    /\ worker[r].depth > MaxDepth
    /\ ~is_done[r]
    /\ Dropped(r)
    /\ ~ReturnsAtOnce(r)
    /\ Ended(r, "done")
    /\ mutex' = unlock(mutex, FALSE)
    /\ ctx' = SearchContext(IF ctx.move_lists > worker[r].depth + 1
                            THEN ctx.move_lists ELSE worker[r].depth + 1, 0)
    /\ UNCHANGED <<position_vars, frames, is_done, channel, controller, output>>

\* A controller that keeps the first move it has received.
ControllerRecvFirst ==
    /\ controller.pc = "loop"
    /\ channel[controller.request] # << >>
    /\ controller' = [controller EXCEPT
                          !.best_move = IF @ = None
                                        THEN Some(Head(channel[controller.request]))
                                        ELSE @]
    /\ channel' = [channel EXCEPT ![controller.request] = Tail(@)]
    /\ UNCHANGED <<position_vars, worker, frames, ret, ctx, mutex, is_done, output>>

\* main.rs:224-228: a move arrives before the deadline.
ControllerRecv ==
    /\ controller.pc = "loop"
    /\ channel[controller.request] # << >>
    /\ controller' = [controller EXCEPT
                          !.best_move = Some(Head(channel[controller.request]))]
    /\ channel' = [channel EXCEPT ![controller.request] = Tail(@)]
    /\ UNCHANGED <<position_vars, worker, frames, ret, ctx, mutex, is_done, output>>

\* main.rs:224, 229-230: the deadline passes; with a best move the flag is
\* set, without one the controller goes on to rx.recv().
ControllerDeadline ==
    /\ controller.pc = "loop"
    /\ IF controller.best_move # None
       THEN /\ is_done' = [is_done EXCEPT ![controller.request] = TRUE]
            /\ controller' = [controller EXCEPT !.pc = "stop"]
       ELSE /\ is_done' = is_done
            /\ controller' = [controller EXCEPT !.pc = "recv"]
    /\ UNCHANGED <<position_vars, worker, frames, ret, ctx, mutex, channel, output>>

\* main.rs:231, 237: the best move is printed and iterative_deepening returns,
\* which drops the receiver and with it the moves not received.
ControllerReturn ==
    /\ controller.pc = "stop"
    /\ output' = Append(output, BestMove(controller.best_move[1]))
    /\ controller' = [controller EXCEPT !.pc = "returned"]
    /\ channel' = [channel EXCEPT ![controller.request] = << >>]
    /\ UNCHANGED <<position_vars, worker, frames, ret, ctx, mutex, is_done>>

\* main.rs:233-237: rx.recv() returns a move, or Err once the worker (the only
\* sender) has ended; the return drops the receiver.
ControllerFallback ==
    /\ controller.pc = "recv"
    /\ IF channel[controller.request] # << >>
       THEN /\ output' = Append(output, BestMove(Head(channel[controller.request])))
            /\ channel' = [channel EXCEPT ![controller.request] = << >>]
       ELSE /\ worker[controller.request].pc \in {"done", "panicked"}
            /\ UNCHANGED <<channel, output>>
    /\ controller' = [controller EXCEPT !.pc = "returned"]
    /\ UNCHANGED <<position_vars, worker, frames, ret, ctx, mutex, is_done>>

\* A step of the worker thread of request r.
WorkerStep(r) ==
    \/ WorkerStart(r)
    \/ WorkerSearch(r)
    \/ MinimaxDescend(r)
    \/ MinimaxResume(r)
    \/ WorkerCheck(r)
    \/ WorkerReport(r)
    \/ WorkerOverflow(r)
    \/ WorkerBeyond(r)

\* A step of iterative_deepening on the command thread.
ControllerStep ==
    \/ ControllerRecv
    \/ ControllerDeadline
    \/ ControllerReturn
    \/ ControllerFallback

NextSearch ==
    \/ CommandGo
    \/ \E r \in Requests : WorkerStep(r)
    \/ ControllerStep

SpecSearch == InitSearch /\ [][NextSearch]_vars

----------------------------------------------------------------------------
(* Properties of do_move, undo_move and move generation, stated on Spec.    *)

\* The piece that the last call moved, as it stood on the source square.
Moved == get_peice(last.before, last.mv[1].src)[1]

\* The castle rights of one colour in Position p.
RightsOf(p, is_white) ==
    IF is_white THEN p.white_castle_state ELSE p.black_castle_state

\* The last call is a successful do_move.
DidMove == last.op = "do_move" /\ last.ok

\* The last call is a successful undo_move of the do_move made just before it.
DidRoundTrip ==
    /\ last.op = "undo_move" /\ last.ok
    /\ prior.op = "do_move" /\ prior.ok
    /\ last.past = prior.past

\* C1: undo_move of the record that do_move returned for a generated move
\* leaves the Position equal, in every field, to the one before the do_move.
C1_RoundTrip == DidRoundTrip => pos = prior.before

\* C2: after a successful do_move the en-passant target is the destination
\* square when a pawn advanced exactly two ranks, and absent otherwise.
C2_EnPassantTarget ==
    DidMove =>
        pos.en_passant_target =
            IF /\ Moved.p_type = "Pawn"
               /\ Abs(last.mv[1].src.rank - last.mv[1].dest.rank) = 2
            THEN Some(last.mv[1].dest)
            ELSE None

\* The mover's castle rights that the maintenance rule prescribes after the
\* move mv of a piece of type p_type, from the rights cs before it.
PrescribedRights(cs, p_type, mv) ==
    CASE p_type = "King" -> CastleState(FALSE, FALSE)
      [] p_type = "Rook" /\ mv.src.file = 0 -> CastleState(cs.can_short_castle, FALSE)
      [] p_type = "Rook" /\ mv.src.file = 7 -> CastleState(FALSE, cs.can_long_castle)
      [] OTHER -> cs

\* C4: do_move clears both rights of the mover on a king move, the long right
\* on a rook move from file 0, the short right on a rook move from file 7,
\* and changes no castle right otherwise; the other colour's rights stay.
C4_CastleRights ==
    DidMove =>
        /\ RightsOf(pos, Moved.is_white) =
               PrescribedRights(RightsOf(last.before, Moved.is_white),
                                Moved.p_type, last.mv[1])
        /\ RightsOf(pos, ~Moved.is_white) = RightsOf(last.before, ~Moved.is_white)

\* A castle right of p is the pair of a colour and a side.
HasRight(p, is_white, short) ==
    IF short THEN RightsOf(p, is_white).can_short_castle
    ELSE RightsOf(p, is_white).can_long_castle

\* C5: along any sequence of do_move, undo_move, do_null_move and
\* undo_null_move, a castle right that is false never becomes true again.
C5_RightsMonotone ==
    [][\A is_white \in BOOLEAN, short \in BOOLEAN :
           ~HasRight(pos, is_white, short) => ~HasRight(pos', is_white, short)]_vars

\* A king move was taken back, the king stands on its home square again, and
\* the rights it had before the move are still cleared.
C5_Witness ==
    /\ DidRoundTrip
    /\ get_peice(pos, last.mv[1].src) = Some(Piece(TRUE, "King"))
    /\ last.mv[1].src = Square(0, 4)
    /\ HasRight(prior.before, TRUE, TRUE) /\ HasRight(prior.before, TRUE, FALSE)
    /\ ~HasRight(pos, TRUE, TRUE) /\ ~HasRight(pos, TRUE, FALSE)

\* The king of the side to move stands on file 4 of rank 0.
KingAtHome(p) ==
    get_peice(p, Square(0, 4)) = Some(Piece(p.white_to_play, "King"))

\* The set moves, emitted by generate_moves for p, holds a move of the
\* side-to-move king from file 4 to the file dest_file of the same rank.
CastleIn(moves, p, dest_file) ==
    \E mv \in moves :
        /\ get_peice(p, mv.src) = Some(Piece(p.white_to_play, "King"))
        /\ mv.src.file = 4 /\ mv.dest.file = dest_file /\ mv.dest.rank = mv.src.rank

CastleEmitted(p, capture, dest_file) == CastleIn(Generated(p, capture), p, dest_file)

\* The files of rank 0 listed in files are empty in p.
FilesEmpty(p, files) == \A f \in files : ~get(all_pieces(p), Square(0, f))

\* The availability that the castling rule states for p.
CastleAvailable(p, short) ==
    /\ KingAtHome(p)
    /\ HasRight(p, p.white_to_play, short)
    /\ FilesEmpty(p, IF short THEN {5, 6} ELSE {1, 2, 3})

\* The castling rule on Position p.
CastlingRuleOn(p, quiet, captures) ==
    /\ CastleIn(quiet, p, 6) <=> CastleAvailable(p, TRUE)
    /\ CastleIn(quiet, p, 2) <=> CastleAvailable(p, FALSE)
    /\ ~CastleIn(captures, p, 6) /\ ~CastleIn(captures, p, 2)

CastlingRule(p) == CastlingRuleOn(p, Generated(p, FALSE), Generated(p, TRUE))

\* C6 as stated: generate_moves with capture=false emits the short castle iff
\* the side-to-move king is on file 4 of rank 0, its short right is true and
\* files 5 and 6 of that rank are empty, and the long castle iff the king is
\* there, the long right is true and files 1, 2 and 3 are empty; it emits no
\* castle with capture=true.
C6_Castling_Stated == CastlingRule(pos)

\* C6, as the code guarantees it: the castling rule holds in every Position
\* that has both kings on the board; with fewer than two kings generate_moves
\* emits nothing at all.
C6_Castling ==
    /\ count(pos.kings) >= 2 => CastlingRule(pos)
    /\ count(pos.kings) < 2 => Generated(pos, FALSE) = {} /\ Generated(pos, TRUE) = {}

\* After the rook of file 7 went out and came back, the long castle is emitted
\* and the short castle is not, although files 5 and 6 are empty.
C6_Witness ==
    /\ DidMove
    /\ count(pos.kings) >= 2
    /\ CastleEmitted(pos, FALSE, 2)
    /\ ~CastleEmitted(pos, FALSE, 6)
    /\ FilesEmpty(pos, {5, 6})

\* Every pawn move in the set moves, emitted for p, onto rank 0 or rank 7
\* carries a promotion type, and all four variants of it are in moves.
PromotionForced(p, moves) ==
    \A mv \in moves :
        (get_piece_type(p, mv.src) = Some("Pawn") /\ mv.dest.rank \in {0, 7}) =>
            /\ mv.promotion # None
            /\ \A t \in {"Queen", "Rook", "Bishop", "Knight"} :
                   Move(mv.src, mv.dest, Some(t)) \in moves

\* C7: every pawn move that generate_moves emits onto rank 0 or rank 7, with
\* capture=true or capture=false, carries a promotion type, and all four
\* variants of it are emitted.
C7_ForcedPromotion ==
    \A capture \in BOOLEAN : PromotionForced(pos, Generated(pos, capture))

----------------------------------------------------------------------------
(* Properties of do_move and undo_move under any calls, stated on SpecCmd.  *)

\* The square to which call c advanced a pawn by two ranks, if it did: the
\* en-passant target that C2 prescribes after c.
PrescribedTarget(c) ==
    IF /\ c.op = "do_move" /\ c.ok
       /\ get_piece_type(c.before, c.mv[1].src) = Some("Pawn")
       /\ Abs(c.mv[1].src.rank - c.mv[1].dest.rank) = 2
    THEN Some(c.mv[1].dest)
    ELSE None

\* The last call is a do_move of a pawn beside the en-passant target onto the
\* target's file.
EnPassantMove(target) ==
    /\ DidMove
    /\ target # None
    /\ Moved.p_type = "Pawn"
    /\ last.mv[1].src.rank = target[1].rank
    /\ last.mv[1].dest.file = target[1].file

\* What an en-passant capture leaves: the target square empty, and a record
\* with the piece that stood there and the target as it was on entry.
EnPassantDone(target) ==
    /\ get_peice(pos, target[1]) = None
    /\ last.past[1].captured_peice = get_peice(last.before, target[1])
    /\ last.past[1].en_passant_target = target

Holding(boards, i) == Cardinality({k \in 1..Len(boards) : i \in boards[k]})

\* Square i of p is in no bitboard, or in exactly one colour board and
\* exactly one piece-type board.
SquareConsistent(colours, types) ==
    \/ colours = 0 /\ types = 0
    \/ colours = 1 /\ types = 1

\* C8: in every Position reached by any sequence of do_move and undo_move
\* calls, successful or failing, each square is in no bitboard at all or in
\* exactly one colour bitboard and exactly one piece-type bitboard.
C8_BoardConsistent ==
    \A i \in 0..63 :
        SquareConsistent(
            Holding(<<pos.white_pieces, pos.black_pieces>>, i),
            Holding(<<pos.pawns, pos.knights, pos.bishops,
                      pos.rooks, pos.queens, pos.kings>>, i))

\* A do_move onto a square that held a piece of the mover's own colour was
\* followed by an undo_move that failed.
C8_Witness ==
    /\ prior.op = "do_move" /\ prior.ok
    /\ prior.past[1].captured_peice # None
    /\ prior.past[1].captured_peice[1].is_white
           = get(prior.before.white_pieces, prior.mv[1].src)
    /\ last.op = "undo_move" /\ ~last.ok

----------------------------------------------------------------------------
(* Properties of the search, stated on SpecSearch.                          *)

\* The king of the given colour stands on a square that a capture generated
\* for the other colour ends on.
Attacked(p, is_white) ==
    \E mv \in Generated([p EXCEPT !.white_to_play = ~is_white], TRUE) :
        /\ get_piece_type(p, mv.dest) = Some("King")
        /\ get(by_color(p, is_white), mv.dest)

InCheck(p) == Attacked(p, p.white_to_play)

\* Every move generated for the side to move leaves its king attacked.
NoLegalMove(p) ==
    \A mv \in Generated(p, TRUE) \cup Generated(p, FALSE) :
        Attacked(do_move(p, mv).pos, p.white_to_play)

\* A root call of depth >= 1 of request r has just returned to the worker.
RootReturned(r) ==
    /\ worker[r].pc = "search"
    /\ frames[r] = << >>
    /\ ret[r] # None
    /\ ret[r][1].is_root
    /\ ret[r][1].depth >= 1

\* C9: a minimax call with is_root = true and depth >= 1 on a Position whose
\* side to move has no legal move returns (-infinity, None) when that side is
\* in check and (0, None) when it is not.
C9_RootWithoutMoves ==
    \A r \in Requests :
        (RootReturned(r) /\ NoLegalMove(ret[r][1].entry)) =>
            /\ ret[r][1].ok
            /\ ret[r][1].chain = None
            /\ ret[r][1].score = IF InCheck(ret[r][1].entry) THEN NEG_INFINITY
                                 ELSE F32(0)

\* The root call on the mated Position has returned -infinity and no move.
C9_Witness ==
    /\ RootReturned(1)
    /\ NoLegalMove(ret[1][1].entry)
    /\ InCheck(ret[1][1].entry)
    /\ ret[1][1].score = NEG_INFINITY
    /\ ret[1][1].chain = None

\* The root call on the stalemated Position has returned 0 and no move.
StalemateReturned ==
    /\ RootReturned(1)
    /\ NoLegalMove(ret[1][1].entry)
    /\ ~InCheck(ret[1][1].entry)
    /\ ret[1][1].score = F32(0)
    /\ ret[1][1].chain = None

\* The step sends a move on the channel of request r.
Sends(r) == Len(channel'[r]) > Len(channel[r])

\* The step prints a progress line of request r.
Reports(r) ==
    /\ worker[r].pc = "report"
    /\ Len(output') > Len(output)
    /\ output'[Len(output')].line = "info"

\* The root call of the current depth of request r has returned, through its
\* normal return and with the cancel flag not set when it returned.
Completed(r) ==
    /\ ret[r] # None
    /\ ret[r][1].is_root
    /\ ret[r][1].depth = worker[r].depth
    /\ ret[r][1].ok
    /\ ~ret[r][1].cancelled
    /\ ~ret[r][1].flagged

\* C10: the worker sends a move and prints a progress line only for a depth
\* whose root minimax call ran to completion and returned before the cancel
\* flag was set; when the flag was set before the call returned, nothing is
\* sent or printed for that depth.
C10_NoCancelledReport ==
    [][\A r \in Requests : (Sends(r) \/ Reports(r)) => Completed(r)]_vars

\* The flag was set while depth 2 was searched: the root call has returned
\* the sentinel to the worker, whose only report is that of depth 1.
C10_Witness ==
    /\ worker[1].pc = "search"
    /\ frames[1] = << >>
    /\ is_done[1]
    /\ ret[1] # None
    /\ ret[1][1].is_root
    /\ ret[1][1].cancelled
    /\ ret[1][1].score = NEG_INFINITY
    /\ ret[1][1].chain = None
    /\ ret[1][1].depth = 2
    /\ Len(SelectSeq(output, LAMBDA o : o.line = "info")) = 1

\* A call inside the search has left its loop through the break of
\* main.rs:162-164.
CutOff ==
    /\ ret[1] # None
    /\ ~ret[1][1].is_root
    /\ ret[1][1].depth >= 1
    /\ f32_ge(ret[1][1].score, INFINITY) = FALSE
    /\ frames[1] # << >>
    /\ f32_ge(ret[1][1].score, f32_neg(frames[1][Len(frames[1])].alpha))
    /\ ~ret[1][1].cancelled

\* C11: in every execution of iterative_deepening the controller sets the
\* shared cancel flag once the deadline has passed and before it returns to
\* its caller, whether or not any depth completed before the deadline.
C11_FlagSetAtReturn == \A r \in Requests : Dropped(r) => is_done[r]

\* The worker thread of request r can take a step: the guards of WorkerStep(r).
WorkerCanStep(r) ==
    \/ worker[r].pc = "spawned" /\ can_lock(mutex)
    \/ worker[r].pc = "loop" /\ (worker[r].depth <= MaxDepth \/ is_done[r])
    \/ worker[r].pc = "loop" /\ worker[r].depth > MaxDepth
           /\ (ReturnsAtOnce(r) \/ Dropped(r))
    \/ worker[r].pc = "search" /\ (frames[r] # << >> \/ ret[r] # None)
    \/ worker[r].pc = "report"

\* Weak fairness of the worker thread of request r, WF_vars(WorkerStep(r)) with
\* its enabling condition written out.
WorkerFair(r) == []<>(~WorkerCanStep(r)) \/ []<><<WorkerStep(r)>>_vars

\* Fair scheduling: a worker thread that can take a step takes one, the
\* command thread goes on inside iterative_deepening, and the deadline passes.
\* No "go" command has to come.
SpecSearchFair ==
    /\ SpecSearch
    /\ \A r \in Requests : WorkerFair(r)
    /\ WF_vars(ControllerStep)
    /\ WF_vars(ControllerDeadline)

\* C12: every search request completes: under fair scheduling of the worker,
\* iterative_deepening eventually returns to the command loop, with one best
\* move when the Position has a legal move and with none when it has not.
\* Stated for the first request.
C12_SearchCompletes ==
    (controller.request = 1 /\ controller.pc = "loop")
        ~> (controller.request = 1 /\ controller.pc = "returned")

\* The worker of request r has locked the context and its thread has not ended.
Searching(r) == worker[r].pc \in {"loop", "search", "report", "wrapped"}

\* The step takes the worker of request r out of lock().
Starts(r) == worker[r].pc = "spawned" /\ worker'[r].pc = "loop"

\* C13: across the search requests issued by the command loop, at most one
\* worker thread at a time is executing minimax or touching the shared
\* SearchContext, and it is the holder of the Mutex; a later request's worker
\* does not start searching until the earlier worker has released the context.
C13_OneSearch ==
    /\ [](\A r, q \in Requests :
            Searching(r) => /\ mutex.holder = r
                            /\ Searching(q) => q = r)
    /\ [][\A r \in Requests : Starts(r) => \A q \in Requests : ~Searching(q)]_vars

\* The worker of the second request waits in lock() while the worker of the
\* first, past its deadline, is inside minimax.
C13_Witness ==
    /\ worker[2].pc = "spawned"
    /\ worker[1].pc = "search"
    /\ frames[1] # << >>
    /\ mutex.holder = 1

\* The worker of the second request searches after that of the first has ended.
Handover ==
    /\ worker[1].pc = "done"
    /\ worker[2].pc = "search"
    /\ frames[2] # << >>

\* The step is the return of a recursive call of request r to the call that
\* waits on it, the recursive call having returned Ok.
Resumes(r) ==
    /\ worker[r].pc = "search"
    /\ frames[r] # << >>
    /\ ret[r] # None
    /\ ret[r][1].ok
    /\ worker'[r] # worker[r]

\* The step ends the innermost call of request r with (-infinity, None), after
\* the undo_move of its move and with no move applied.
Unwinds(r) ==
    /\ Len(frames'[r]) = Len(frames[r]) - 1
    /\ ret'[r] # None
    /\ ret'[r][1].ok
    /\ ret'[r][1].score = NEG_INFINITY
    /\ ret'[r][1].chain = None
    /\ Len(worker'[r].past) = Len(worker[r].past) - 1
    /\ worker'[r].late = worker[r].late

\* C20: once the cancel flag is set, every minimax call that is waiting on a
\* child call returns (-infinity, no move) as soon as that child returns and
\* its move is undone, without applying a further sibling move; the do_move
\* calls made after the flag is set are at most one for each level of the
\* search, which is within the moves in progress plus the remaining subtree of
\* the deepest node.
C20_CancelUnwinds ==
    /\ [](\A r \in Requests : worker[r].late <= worker[r].depth)
    /\ [][\A r \in Requests : (is_done[r] /\ Resumes(r)) => Unwinds(r)]_vars

\* With the flag set, a call below the root that had applied a move after the
\* flag was set has returned (-infinity, None) to the call waiting on it.
C20_Witness ==
    /\ is_done[1]
    /\ worker[1].pc = "search"
    /\ worker[1].late >= 1
    /\ frames[1] # << >>
    /\ ret[1] # None
    /\ ~ret[1][1].is_root
    /\ ret[1][1].cancelled
    /\ ret[1][1].score = NEG_INFINITY
    /\ ret[1][1].chain = None

\* With the flag set between two depths, the worker has started the root call
\* of a depth beyond MaxDepth.
LateRoot ==
    /\ is_done[1]
    /\ worker[1].pc = "search"
    /\ worker[1].depth > MaxDepth

----------------------------------------------------------------------------
(* Properties of evaluate, generate_moves and minimax as functions of the   *)
(* Position, stated on SpecGen.                                             *)

\* The kings of the side to move.
OwnKings(p) == count(intersect(p.kings, by_color(p, p.white_to_play)))

\* e is what evaluate returned on p and f what it returned on p under a null move.
ZeroSum(p, e, f) ==
    /\ f32_eq(e.score, f32_neg(f.score))
    /\ e.pos = p

ZeroSumAt(p) == ZeroSum(p, evaluate(new, p), evaluate(new, do_null_move(p)))

\* C14 as stated: for every Position, evaluate is the negation of evaluate
\* under a null move, and evaluate leaves the Position unchanged.
C14_ZeroSum_Stated == ZeroSumAt(pos)

\* C14: on every Position with at least one king on the board, evaluate is the
\* negation of evaluate under a null move; evaluate leaves every Position
\* unchanged.
C14_ZeroSum ==
    /\ count(pos.kings) > 0 => ZeroSumAt(pos)
    /\ evaluate(new, pos).pos = pos

\* One king is on the board, a capture has just been made, and the side that
\* lost its king is valued at minus infinity, the other at plus infinity.
C14_Witness ==
    /\ calls = 1
    /\ last.op = "do_move"
    /\ count(pos.kings) = 1
    /\ OwnKings(pos) = 0
    /\ evaluate(new, pos).score = NEG_INFINITY
    /\ evaluate(new, do_null_move(pos)).score = INFINITY

\* generate_moves with capture = true followed by capture = false.
AllMoves(p) == generate_moves(generate_moves(<< >>, p, TRUE), p, FALSE)

\* The moves of a buffer that start on a square holding the given piece type.
MovesOf(p, moves, p_type) ==
    SelectSeq(moves, LAMBDA mv : get_piece_type(p, mv.src) = Some(p_type))

\* 20 moves, 16 of pawns and 4 of knights.
TwentyMoves(p, moves) ==
    /\ Len(moves) = 20
    /\ Len(MovesOf(p, moves, "Pawn")) = 16
    /\ Len(MovesOf(p, moves, "Knight")) = 4

\* C15: from Position::start() generate_moves emits 20 moves for the side to
\* move, 16 of pawns and 4 of knights, and as many for the other side after
\* a null move; generate_legal_moves emits 20 moves.
C15_StartMoves ==
    /\ pos = start =>
          /\ TwentyMoves(pos, AllMoves(pos))
          /\ generate_legal_moves(<< >>, pos).ok
          /\ Len(generate_legal_moves(<< >>, pos).moves) = 20
    /\ pos = do_null_move(start) => TwentyMoves(pos, AllMoves(pos))

\* The start Position under a null move, with its 20 moves for black.
C15_Witness ==
    /\ calls = 1
    /\ last.op = "do_null_move"
    /\ pos = do_null_move(start)
    /\ Len(AllMoves(pos)) = 20

\* The depths at which minimax is called inside a search.
Depths == 0..MaxDepth

\* C19: minimax with is_root = false, at any depth >= 0, on a Position whose
\* side to move has no king returns the score -infinity.
C19_CapturedKing ==
    OwnKings(pos) = 0 =>
        \A depth \in Depths :
            LET o == minimax(new, pos, depth, FALSE, NEG_INFINITY, INFINITY)
            IN o.returned /\ o.ok /\ f32_eq(o.score, NEG_INFINITY)

----------------------------------------------------------------------------
(* bitboard.rs: Bitboard::rank and Bitboard::file called with every i8.     *)

MaskCall(op, index, mask) == [op |-> op, index |-> index, mask |-> mask]

InitMasks ==
    /\ pos = start
    /\ undo_stack = << >>
    /\ last = Call("start", None, None, start, TRUE)
    /\ prior = Call("start", None, None, start, TRUE)
    /\ calls = 0
    /\ NoSearch

CallRank ==
    /\ \E r \in -128..127 : last' = MaskCall("rank", r, bitboard_rank(r))
    /\ UNCHANGED <<pos, undo_stack, prior, calls, search_vars>>

CallFile ==
    /\ \E f \in -128..127 : last' = MaskCall("file", f, bitboard_file(f))
    /\ UNCHANGED <<pos, undo_stack, prior, calls, search_vars>>

NextMasks ==
    \/ CallRank
    \/ CallFile

SpecMasks == InitMasks /\ [][NextMasks]_vars

\* The bits of the eight squares of a rank, and of a file, under the bit index
\* that get and set use.
RankSquares(r) == { BitIndex(Square(r, f)) : f \in 0..7 }

FileSquares(f) == { BitIndex(Square(r, f)) : r \in 0..7 }

\* C16: Bitboard::rank(r) holds exactly the eight squares of rank r and
\* Bitboard::file(f) exactly the eight squares of file f, for r and f in
\* 0..7; for any other index both are the empty bitboard.
C16_Masks ==
    /\ last.op = "rank" =>
          last.mask = IF last.index \in 0..7 THEN RankSquares(last.index)
                      ELSE empty_bitboard
    /\ last.op = "file" =>
          last.mask = IF last.index \in 0..7 THEN FileSquares(last.index)
                      ELSE empty_bitboard

----------------------------------------------------------------------------
(* Errors of do_move and undo_move, stated on SpecCmd.                      *)

\* C17: do_move of a move whose source square is empty returns an error and
\* leaves the Position as it was; undo_move of a record whose destination
\* square is empty returns an error and leaves the Position as it was.
C17_ErrorsUntouched ==
    /\ (last.op = "do_move" /\ get_peice(last.before, last.mv[1].src) = None) =>
          (~last.ok /\ pos = last.before)
    /\ (last.op = "undo_move" /\ get_peice(last.before, last.mv[1].dest) = None) =>
          (~last.ok /\ pos = last.before)

\* do_move has just failed on an empty source square.
C17_Witness ==
    /\ last.op = "do_move"
    /\ get_peice(last.before, last.mv[1].src) = None
    /\ ~last.ok
    /\ pos = last.before

\* undo_move has just failed on an empty destination square.
UndoFailed ==
    /\ last.op = "undo_move"
    /\ get_peice(last.before, last.mv[1].dest) = None
    /\ ~last.ok
    /\ pos = last.before

----------------------------------------------------------------------------
(* square.rs and moves.rs, FromStr: a text is the sequence of its           *)
(* characters, and a call ends in a value (kind "ok"), in an Err (kind      *)
(* "err") or in a panic (kind "panic").                                     *)

RANK_NAMES == <<"1", "2", "3", "4", "5", "6", "7", "8">>

FILE_NAMES == <<"a", "b", "c", "d", "e", "f", "g", "h">>

Parsed(kind, value) == [kind |-> kind, value |-> value]

\* names.iter().position(|&c| c == ch): the index from 0 of the first match.
position(names, ch) ==
    IF \E i \in 1..Len(names) : names[i] = ch
    THEN Some((CHOOSE i \in 1..Len(names) :
                  names[i] = ch /\ \A j \in 1..(i - 1) : names[j] # ch) - 1)
    ELSE None

\* Square::from_str: each of the four unwrap calls panics on None.
square_from_str(s) ==
    IF Len(s) < 2 THEN Parsed("panic", None)
    ELSE IF position(RANK_NAMES, s[2]) = None \/ position(FILE_NAMES, s[1]) = None
    THEN Parsed("panic", None)
    ELSE Parsed("ok", Some(Square(position(RANK_NAMES, s[2])[1],
                                  position(FILE_NAMES, s[1])[1])))

\* The match on s.chars().nth(4).
promotion_of(s) ==
    IF Len(s) < 5 THEN None
    ELSE IF s[5] = "q" THEN Some("Queen")
    ELSE IF s[5] = "r" THEN Some("Rook")
    ELSE IF s[5] = "b" THEN Some("Bishop")
    ELSE IF s[5] = "n" THEN Some("Knight")
    ELSE None

\* Move::from_str once s[0..2] parsed to src: the slice s[2..4] panics on a
\* text shorter than four characters.
move_from_src(s, src) ==
    IF src.kind # "ok" THEN src
    ELSE IF Len(s) < 4 THEN Parsed("panic", None)
    ELSE IF square_from_str(SubSeq(s, 3, 4)).kind # "ok"
    THEN square_from_str(SubSeq(s, 3, 4))
    ELSE Parsed("ok", Some(Move(src.value[1], square_from_str(SubSeq(s, 3, 4)).value[1],
                                promotion_of(s))))

\* Move::from_str: the slice s[0..2] panics on a text shorter than two characters.
move_from_str(s) ==
    IF Len(s) < 2 THEN Parsed("panic", None)
    ELSE move_from_src(s, square_from_str(SubSeq(s, 1, 2)))

\* The most position commands read in one run.
MaxCommands == 1

FileChars == {"a", "e", "h", "i"}

RankChars == {"1", "2", "4", "8", "9", "0"}

\* Texts of four characters, texts with a fifth character, and shorter ones.
MoveTexts ==
    { <<f, r, g, t>> : f \in FileChars, r \in RankChars, g \in FileChars, t \in RankChars }
    \cup { <<"e", "2", "e", "4", c>> : c \in {"q", "r", "b", "n", "k", "x", "Q"} }
    \cup { <<"e", "9", "e", "4", c>> : c \in {"q", "x"} }
    \cup { << >>, <<"e">>, <<"e", "2">>, <<"e", "2", "e">> }

\* The command loop has read nothing yet.
InitParse ==
    /\ pos = start
    /\ undo_stack = << >>
    /\ last = Call("start", None, None, start, TRUE)
    /\ prior = Call("start", None, None, start, TRUE)
    /\ calls = 0
    /\ NoSearch

\* What the position command leaves of the program once move_part.parse()
\* ended in r: a panic of the main thread, or main returning the Err that
\* parse or do_move returned, or the command loop reading on.
position_parsed(text, r) ==
    IF r.kind = "panic"
    THEN [op |-> "position", text |-> text, parsed |-> r, status |-> "panicked",
          pos |-> start]
    ELSE IF r.kind = "err"
    THEN [op |-> "position", text |-> text, parsed |-> r, status |-> "exited",
          pos |-> start]
    ELSE [op |-> "position", text |-> text, parsed |-> r,
          status |-> IF do_move(start, r.value[1]).ok THEN "running" ELSE "exited",
          pos |-> do_move(start, r.value[1]).pos]

\* main.rs:268-275 on "position startpos moves <text>".
CommandPosition ==
    /\ calls < MaxCommands
    /\ \E text \in MoveTexts : last' = position_parsed(text, move_from_str(text))
    /\ pos' = last'.pos
    /\ calls' = calls + 1
    /\ UNCHANGED <<undo_stack, prior, search_vars>>

NextParse == CommandPosition

SpecParse == InitParse /\ [][NextParse]_vars

\* A text of four or five characters with a file letter outside a..h, a rank
\* digit outside 1..8, or a fifth character outside q, r, b, n.
Malformed(text) ==
    /\ Len(text) \in {4, 5}
    /\ \/ \E i \in {1, 3} : position(FILE_NAMES, text[i]) = None
       \/ \E i \in {2, 4} : position(RANK_NAMES, text[i]) = None
       \/ Len(text) = 5 /\ text[5] \notin {"q", "r", "b", "n"}

\* C18: parsing a malformed move text returns an error, which ends the
\* command and nothing else: no Move is made of it and the program neither
\* panics nor exits.
C18_MalformedIsError ==
    (last.op = "position" /\ Malformed(last.text)) =>
        /\ last.parsed.kind = "err"
        /\ last.status = "running"

----------------------------------------------------------------------------
(* is_check and generate_legal_moves as functions of the Position, stated   *)
(* on SpecGen.                                                              *)

\* Positions p and q agree in the piece bitboards, the side to move and the
\* en-passant target: in every field but the castle rights.
SameBoard(p, q) ==
    [p EXCEPT !.white_castle_state = q.white_castle_state,
              !.black_castle_state = q.black_castle_state] = q

\* C21: after is_check returns, and after generate_legal_moves returns, the
\* Position equals its state before the call in every field: bitboards, side
\* to move, en-passant target and the castle rights of both colours.
C21_NoNetEffect ==
    /\ is_check(pos).pos = pos
    /\ generate_legal_moves(<< >>, pos).pos = pos

\* White's rook stands on the corner of each castle right white still has.
RooksHome(p) ==
    /\ p.white_castle_state.can_short_castle
           => get_peice(p, Square(0, 7)) = Some(Piece(TRUE, "Rook"))
    /\ p.white_castle_state.can_long_castle
           => get_peice(p, Square(0, 0)) = Some(Piece(TRUE, "Rook"))

\* Both calls return Ok, and unless a castle right has outlived its rook
\* they leave every field but the castle rights as it was.
BoardRestored ==
    /\ is_check(pos).ok
    /\ generate_legal_moves(<< >>, pos).ok
    /\ RooksHome(pos) =>
          /\ SameBoard(is_check(pos).pos, pos)
          /\ SameBoard(generate_legal_moves(<< >>, pos).pos, pos)

\* generate_legal_moves has tried the castle of a right that outlived its
\* rook, and returns with other bitboards.
LegalMovesLeaveRook ==
    /\ ~RooksHome(pos)
    /\ ~SameBoard(generate_legal_moves(<< >>, pos).pos, pos)

\* is_check itself has changed the castle rights.
CheckLosesRights == is_check(pos).pos # pos

----------------------------------------------------------------------------
(* The search's use of do_move and undo_move, stated on SpecSearch.         *)

\* Positions p and q agree in the piece bitboards and the side to move.
SamePieces(p, q) ==
    [p EXCEPT !.white_castle_state = q.white_castle_state,
              !.black_castle_state = q.black_castle_state,
              !.en_passant_target = q.en_passant_target] = q

\* The past_move records held by the calls of request r in progress: one for
\* each call but the innermost, and one for the innermost while it waits on
\* or has just got back its recursive call.
Matched(r) ==
    Len(worker[r].past) =
        IF frames[r] # << >> /\ ret[r] = None THEN Len(frames[r]) - 1
        ELSE Len(frames[r])

\* The step is an undo_move of request r.
Undoes(r) == Len(worker'[r].past) < Len(worker[r].past)

\* The record undone is the innermost one, and it is the record of the move
\* that the innermost call applied.
UndoesInnermost(r) ==
    /\ worker'[r].past = SubSeq(worker[r].past, 1, Len(worker[r].past) - 1)
    /\ frames[r] # << >>
    /\ worker[r].past[Len(worker[r].past)].mv
           = frames[r][Len(frames[r])].moves[frames[r][Len(frames[r])].next]

\* C22: on every return path of minimax that yields Ok, each do_move made by
\* that call and its descendants has been matched by exactly one undo_move
\* with the record it returned, in LIFO order; the piece bitboards and the
\* side to move on return equal those on entry.
C22_StackDiscipline ==
    /\ [](\A r \in Requests :
            /\ Matched(r)
            /\ (ret[r] # None /\ ret[r][1].ok) =>
                   SamePieces(worker[r].pos, ret[r][1].entry))
    /\ [][\A r \in Requests : Undoes(r) => UndoesInnermost(r)]_vars

\* The pairing alone: every do_move of the search is matched by the undo_move
\* of its record, innermost first.
DoUndoPaired ==
    /\ [](\A r \in Requests : Matched(r))
    /\ [][\A r \in Requests : Undoes(r) => UndoesInnermost(r)]_vars

\* A call has returned Ok with a rook on h1 where a black knight stood on
\* its entry.
CastleLeavesRook ==
    \E r \in Requests :
        /\ ret[r] # None
        /\ ret[r][1].ok
        /\ get_peice(ret[r][1].entry, Square(0, 7)) = Some(Piece(FALSE, "Knight"))
        /\ get_peice(worker[r].pos, Square(0, 7)) = Some(Piece(TRUE, "Rook"))


(* The pool of move buffers, stated on SpecSearch. *)

\* The calls inside their loops, each holding the buffer it took at
\* main.rs:132: only the worker that holds the context has any.
Borrowed == CHOOSE n \in { Len(frames[r]) : r \in Requests } :
               \A r \in Requests : Len(frames[r]) <= n

\* The buffers that exist: the pooled ones and the borrowed ones.
Buffers == ctx.move_lists + Borrowed

\* A call with depth >= 1 has just returned Ok.
NodeReturned(r) ==
    /\ ret[r] # None
    /\ ret[r][1].ok
    /\ ret[r][1].depth >= 1

\* No step of a search that goes on without an error loses a buffer.
NoBufferLost ==
    [][(\A r \in Requests : ret'[r] # None => ret'[r][1].ok) => Buffers' >= Buffers]_vars

\* C23: a minimax node that borrowed a buffer with get_move_vec has given it
\* back when it returns Ok, so the pool is not empty at such a return, and no
\* step of a search loses a buffer: the pool holds at least as many buffers
\* after a search call as before it.
C23_BuffersReturned ==
    /\ [](\A r \in Requests : NodeReturned(r) => ctx.move_lists >= 1)
    /\ NoBufferLost

\* The return paths taken one by one: a node that returns Ok after its loop
\* ended (main.rs:167) has given its buffer back.
LoopEndReturnsBuffer ==
    \A r \in Requests :
        (NodeReturned(r) /\ ~ret[r][1].cancelled /\ ret[r][1].chain # None)
            => ctx.move_lists >= 1

\* A node that found no moves has returned with the pool empty.
NoMovesKeepsBuffer ==
    \E r \in Requests :
        /\ NodeReturned(r) /\ ~ret[r][1].cancelled /\ ret[r][1].chain = None
        /\ ctx.move_lists = 0

\* A cancelled node has returned with fewer buffers pooled than its search
\* call started with.
CancelledKeepsBuffer ==
    \E r \in Requests :
        /\ NodeReturned(r) /\ ret[r][1].cancelled /\ ret[r][1].is_root
        /\ ctx.move_lists = 1


(* The messages of the worker and the best move of the controller, stated on
   SpecSearch. *)

\* The lines printed since the last "bestmove" line among the first n: the
\* progress lines of the request in progress, one for each move sent.
RECURSIVE Sent(_)
Sent(n) ==
    IF n = 0 \/ output[n].line = "bestmove" THEN << >>
    ELSE Append(Sent(n - 1), output[n])

\* The move of the last of the first k messages of the request in progress.
LastOf(sent, k) == IF k = 0 THEN None ELSE Some(sent[k].pv[1])

\* The move of the last message the controller has received: the channel
\* holds the messages sent and not yet received.
LastReceived ==
    LastOf(Sent(Len(output)), Len(Sent(Len(output))) - Len(channel[controller.request]))

\* Every progress line is the first of its request and of depth 1, or of a
\* greater depth than the line before it.
InDepthOrder ==
    \A i \in 1..Len(output) :
        output[i].line = "info" =>
            IF i = 1 \/ output[i - 1].line = "bestmove"
            THEN output[i].depth = 1
            ELSE output[i].depth > output[i - 1].depth

\* C24: the worker sends its results in strictly increasing depth order from
\* depth 1 on, at most one for a depth; until the deadline the controller's
\* best move is the move of the last message it has received, and that is the
\* move it prints when it had received one by the deadline.
C24_LastMessageWins ==
    /\ [](InDepthOrder)
    /\ [](controller.pc \in {"loop", "stop"} => controller.best_move = LastReceived)
    /\ [][(controller.pc = "stop" /\ controller'.pc = "returned")
              => output' = Append(output, BestMove(LastReceived[1]))]_vars

\* The controller has received two messages and printed the move of the
\* second, which is not the move of the first.
C24_Witness ==
    /\ controller.pc = "returned"
    /\ controller.request = 1
    /\ Len(output) = 3
    /\ output[1] = Info(1, output[1].pv)
    /\ output[2] = Info(2, output[2].pv)
    /\ output[3] = BestMove(output[2].pv[1])
    /\ output[1].pv[1] # output[2].pv[1]
    /\ is_done[1]


(* minimax against the search without pruning, stated on SpecSearch. *)

RECURSIVE negamax(_, _, _)

\* The loop of main.rs:149-166 without its break and with no window: the best
\* score so far, the first move that reached it and the calls made.
RECURSIVE negamax_loop(_, _, _, _, _, _, _)

negamax_undone(moves, i, best, mv, s, u, depth, nodes) ==
    IF f32_gt(s, best)
    THEN negamax_loop(moves, i + 1, s, Some(moves[i]), u.pos, depth, nodes)
    ELSE negamax_loop(moves, i + 1, best, mv, u.pos, depth, nodes)

negamax_returned(moves, i, best, mv, r, past, depth, nodes) ==
    negamax_undone(moves, i, best, mv, f32_neg(r.score), undo_move(r.pos, past),
                   depth, nodes + r.nodes)

negamax_moved(moves, i, best, mv, d, depth, nodes) ==
    negamax_returned(moves, i, best, mv, negamax(d.pos, depth - 1, FALSE), d.past[1],
                     depth, nodes)

negamax_loop(moves, i, best, mv, p, depth, nodes) ==
    IF i > Len(moves) THEN [score |-> best, mv |-> mv, pos |-> p, nodes |-> nodes]
    ELSE negamax_moved(moves, i, best, mv, do_move(p, moves[i]), depth, nodes)

negamax_no_moves(chk) ==
    [score |-> IF chk.check THEN NEG_INFINITY ELSE F32(0), mv |-> None,
     pos |-> chk.pos, nodes |-> 1]

negamax_moves(m, depth) ==
    IF Len(m.moves) = 0 THEN negamax_no_moves(is_check(m.pos))
    ELSE negamax_loop(m.moves, 1, NEG_INFINITY, None, m.pos, depth, 1)

negamax_leaf(e) == [score |-> e.score, mv |-> None, pos |-> e.pos, nodes |-> 1]

\* The value of the Position p searched to depth with every move of every
\* node tried, on the Position as the code passes it on, with the first move
\* of the node that attains the value and the number of calls.
negamax(p, depth, is_root) ==
    IF depth < 1 THEN negamax_leaf(evaluate(new, p))
    ELSE negamax_moves(minimax_generate(p, is_root), depth)


\* The root call of request r has returned Ok with the flag unset, as it then
\* was during the whole call.
RootUnflagged(r) ==
    /\ worker[r].pc = "search"
    /\ frames[r] = << >>
    /\ ret[r] # None
    /\ ret[r][1].ok
    /\ ret[r][1].is_root
    /\ ~ret[r][1].flagged

\* The Result res of a root call agrees with n, what the search without
\* pruning finds on the Position the call was entered with.
Agrees(res, n) ==
    /\ res.score = n.score
    /\ f32_gt(res.score, NEG_INFINITY) => res.chain # None /\ res.chain[1][1] = n.mv[1]

\* The statement as the specification words it: with the flag never set, the
\* root call with the full window returns the score of the search without
\* pruning, and when that score is above -infinity its chain starts with the
\* first root move, in generation order, that attains it.
C26_AsWorded ==
    \A r \in Requests :
        RootUnflagged(r) => Agrees(ret[r][1], negamax(ret[r][1].entry, ret[r][1].depth, TRUE))

\* The same where the score may be that of a root without a move: the chain
\* is None exactly when no root move attains a score above -infinity.
AgreesOnMoves(res, n) ==
    /\ res.score = n.score
    /\ n.mv # None => res.chain # None /\ res.chain[1][1] = n.mv[1]
    /\ n.mv = None => res.chain = None

\* C26: with the flag never set, the root call with the full window returns
\* the score of the search without pruning; when a root move attains a score
\* above -infinity its chain starts with the first root move, in generation
\* order, that attains the score, and otherwise (no root move, or none above
\* -infinity) it returns no chain.
C26_PruningKeepsResult ==
    \A r \in Requests :
        RootUnflagged(r) =>
            AgreesOnMoves(ret[r][1], negamax(ret[r][1].entry, ret[r][1].depth, TRUE))

\* A root call of depth 2 has returned a move after fewer calls than the search
\* without pruning makes.
C26_Witness ==
    /\ RootUnflagged(1)
    /\ ret[1][1].depth = 2
    /\ ret[1][1].chain # None
    /\ ctx.nodes < negamax(ret[1][1].entry, 2, TRUE).nodes


(* The end of the worker and the start of the next, stated on SpecSearchFair. *)

\* The thread of the worker of request r has ended, which drops its guard.
Stopped(r) == worker[r].pc \in {"done", "panicked"} /\ mutex.holder # r

\* C25: after iterative_deepening has returned from a request, by the normal
\* path or by the fallback receive, the worker of the request eventually
\* leaves its loop and releases the context, and the worker of a request that
\* follows eventually acquires the context and starts searching.
C25_WorkerStops ==
    \A r \in Requests :
        /\ Dropped(r) ~> Stopped(r)
        /\ (worker[r].pc = "spawned") ~> Searching(r)

\* The same for the workers that find the Mutex as the first one did.
WorkerStopsUnpoisoned ==
    \A r \in Requests :
        /\ Dropped(r) ~> Stopped(r)
        /\ (worker[r].pc = "spawned") ~> (Searching(r) \/ mutex.poisoned)

\* The worker that follows a panicked one has ended in lock().unwrap().
PoisonedStart ==
    /\ worker[1].pc = "panicked"
    /\ worker[2].pc = "panicked"
    /\ controller.request = 2


(* The number of pieces under do_move of generated moves, stated on Spec. *)

\* The pieces of one colour in Position p.
Material(p, is_white) == count(by_color(p, is_white))

\* The pieces the record past tells the caller were captured.
Captures(past) == IF past.captured_peice # None THEN 1 ELSE 0

\* The last call was a do_move that returned Ok.
Applied == last.op = "do_move" /\ last.ok

\* C27: no do_move of a generated move creates material: the mover has as
\* many pieces after it as before, and the opponent has one less when the
\* record returned holds a captured piece and as many otherwise, castling
\* included.
C27_MaterialKept ==
    Applied =>
        /\ Material(pos, Moved.is_white) = Material(last.before, Moved.is_white)
        /\ Material(pos, ~Moved.is_white) =
               Material(last.before, ~Moved.is_white) - Captures(last.past[1])

\* The last call moved a king across two files.
Castled ==
    /\ Applied
    /\ Moved.p_type = "King"
    /\ Abs(last.mv[1].dest.file - last.mv[1].src.file) = 2

\* The same for every do_move but a castling move.
MaterialKeptUncastled == Castled \/ C27_MaterialKept

\* Castling with the rook where it started keeps the material as well.
MaterialKeptRooked ==
    (Castled /\ get_peice(last.before, Square(0, IF last.mv[1].dest.file > 4 THEN 7 ELSE 0))
                    = Some(Piece(TRUE, "Rook")))
        => C27_MaterialKept

\* White has castled short with a black knight on h1: the knight is gone, no
\* piece is recorded as captured, and white has a rook more.
RookFromNowhere ==
    /\ Castled
    /\ get_peice(last.before, Square(0, 7)) = Some(Piece(FALSE, "Knight"))
    /\ last.past[1].captured_peice = None
    /\ Material(pos, TRUE) = Material(last.before, TRUE) + 1
    /\ Material(pos, FALSE) = Material(last.before, FALSE) - 1


(* The moves generate_moves emits, stated on Spec. *)

\* mv is the en-passant capture that generate_pawn_moves pushes in p.
IsEnPassant(p, mv) ==
    /\ p.en_passant_target # None
    /\ get(p.pawns, mv.src)
    /\ p.en_passant_target[1].rank = mv.src.rank
    /\ Abs(p.en_passant_target[1].file - mv.src.file) = 1
    /\ mv.dest.file = p.en_passant_target[1].file
    /\ Abs(mv.dest.rank - mv.src.rank) = 1

\* mv, emitted with the given capture flag, can be played in p.
Applicable(p, mv, capture) ==
    /\ get(by_color(p, p.white_to_play), mv.src)
    /\ is_valid(mv.dest)
    /\ ~get(by_color(p, p.white_to_play), mv.dest)
    /\ capture => get(by_color(p, ~p.white_to_play), mv.dest) \/ IsEnPassant(p, mv)
    /\ ~capture => ~get(all_pieces(p), mv.dest)
    /\ do_move(p, mv).ok

\* C28: every move generate_moves emits has a piece of the side to move on
\* its source and a destination on the board without a piece of that side;
\* emitted with capture = true the destination holds a piece of the opponent
\* (or the move is the en-passant capture), with capture = false it is empty;
\* and do_move of the move returns Ok.
C28_GeneratedApplicable ==
    \A capture \in BOOLEAN :
        \A mv \in Generated(pos, capture) : Applicable(pos, mv, capture)

\* After a do_move the side to move has captures and other moves, a castling
\* move among them.
C28_Witness ==
    /\ Applied
    /\ Generated(pos, TRUE) # {}
    /\ \E mv \in Generated(pos, FALSE) :
           get(pos.kings, mv.src) /\ Abs(mv.dest.file - mv.src.file) = 2

(* generate_direction_moves for the rooks, bishops and queens, stated on Spec. *)

\* The square of bit index i.
SquareOf(i) == Square(i % 8, i \div 8)

\* The k-th square from src in the direction <<dr, df>>.
Along(src, dr, df, k) == Square(src.rank + k * dr, src.file + k * df)

\* The steps from src in that direction up to the first square that is off
\* the board or holds a piece: the squares before it are empty.
Reach(p, src, dr, df) ==
    CHOOSE k \in 1..8 :
        /\ ~is_valid(Along(src, dr, df, k)) \/ get(all_pieces(p), Along(src, dr, df, k))
        /\ \A j \in 1..(k - 1) : ~get(all_pieces(p), Along(src, dr, df, j))

\* The moves to the empty squares of the ray, nearest first.
RayMoves(src, dr, df, reach) ==
    [k \in 1..(reach - 1) |-> Move(src, Along(src, dr, df, k), None)]

\* The capture at the end of the ray, if a piece of the other colour stands there.
RayCapture(p, src, dr, df, reach) ==
    IF get(by_color(p, ~get(p.white_pieces, src)), Along(src, dr, df, reach))
    THEN << Move(src, Along(src, dr, df, reach), None) >>
    ELSE << >>

RayAsSpecified(p, src, dr, df, reach) ==
    /\ generate_direction_moves(<< >>, p, src, dr, df, FALSE) = RayMoves(src, dr, df, reach)
    /\ generate_direction_moves(<< >>, p, src, dr, df, TRUE) = RayCapture(p, src, dr, df, reach)

\* The directions of the piece on square index i of p.
DirectionsOf(p, i) ==
    (IF i \in p.rooks \cup p.queens THEN Range(ROOK_DIRECTIONS) ELSE {})
    \cup (IF i \in p.bishops \cup p.queens THEN Range(BISHOP_DIRECTIONS) ELSE {})

\* C29: for every rook, bishop and queen and each of its directions,
\* generation with capture = false emits exactly the empty squares before the
\* first occupied square or the edge, and generation with capture = true
\* emits exactly one move, to the first occupied square, when that holds a
\* piece of the other colour, and none when it holds a piece of the own
\* colour or the ray reaches the edge.
C29_SlidingRays ==
    \A i \in pos.rooks \cup pos.bishops \cup pos.queens :
        \A d \in DirectionsOf(pos, i) :
            RayAsSpecified(pos, SquareOf(i), d[1], d[2],
                           Reach(pos, SquareOf(i), d[1], d[2]))

\* A queen has a ray of several empty squares that ends on a piece of the
\* other colour, a ray that ends on a piece of her own and one that ends at
\* the edge.
C29_Witness ==
    \E i \in pos.queens :
        /\ \E d \in DirectionsOf(pos, i) :
               /\ Reach(pos, SquareOf(i), d[1], d[2]) > 2
               /\ RayCapture(pos, SquareOf(i), d[1], d[2],
                             Reach(pos, SquareOf(i), d[1], d[2])) # << >>
        /\ \E d \in DirectionsOf(pos, i) :
               get(by_color(pos, i \in pos.white_pieces),
                   Along(SquareOf(i), d[1], d[2], Reach(pos, SquareOf(i), d[1], d[2])))
        /\ \E d \in DirectionsOf(pos, i) :
               /\ Reach(pos, SquareOf(i), d[1], d[2]) > 1
               /\ ~is_valid(Along(SquareOf(i), d[1], d[2], Reach(pos, SquareOf(i), d[1], d[2])))

====
